---- MODULE Spec2Model ----
(***************************************************************************)
(* A model of the smartcar Rust SDK: the ScopeBuilder, the Smartcar        *)
(* Connect URL builder, the webhook helpers and the request sender.        *)
(*                                                                         *)
(* Rust Strings are TLA+ strings, read character by character through      *)
(* SubSeq.  An Option<T> is a sequence of length 0 (None) or 1 (Some(v)).  *)
(* Every part of the SDK has its own specification (SpecScope, SpecAuth,   *)
(* SpecWebhook, SpecSend); the variables a specification does not use keep *)
(* their initial values.                                                   *)
(***************************************************************************)
EXTENDS Integers, Sequences, FiniteSets, TLC

VARIABLES
    scope,      \* the ScopeBuilder: [permissions, query_value]
    ctor,       \* ghost: the constructor that made `scope`
    added,      \* ghost: every permission handed to add_permission(s), in order
    env,        \* the process environment: variable name -> Option<String>
    client,     \* the AuthClient: [client_id, client_secret, redirect_uri, test_mode]
    options,    \* the AuthUrlOptionsBuilder
    ret,        \* what the latest call returned, with the arguments it was given
    vehicle,    \* the Vehicle handle: [id, access_token, unit_system]
    pc,         \* where the SDK call in progress stands: idle, awaiting, done
    call,       \* the SDK call in progress or just ended, with its arguments
    wire,       \* the HTTP requests that call has dispatched, in order
    reply,      \* what the transport gave back for it
    sendRet,    \* what SmartcarRequestBuilder::send returned to it
    builder,    \* the SmartcarCredentialsBuilder under construction
    built,      \* ghost: the environment and the client as they were at construction
    tasks       \* the SDK calls running side by side: each task's own pc, call, wire, reply, ret

scopeVars == <<scope, ctor, added>>

authVars == <<env, client, options>>

sendVars == <<vehicle, pc, call, wire, reply, sendRet>>

lifeVars == <<builder, built, tasks>>

vars ==
    <<scope, ctor, added, env, client, options, ret,
      vehicle, pc, call, wire, reply, sendRet, builder, built, tasks>>

(***************************************************************************)
(* Options and strings                                                     *)
(***************************************************************************)
None == <<>>

Some(v) == <<v>>

IsSome(o) == Len(o) = 1

IsNone(o) == Len(o) = 0

Unwrap(o) == o[1]

Range(s) == {s[i] : i \in 1..Len(s)}

SeqsUpTo(S, n) == UNION {[1..k -> S] : k \in 0..n}

Char(s, i) == SubSeq(s, i, i)

\* the elements of ps that are neither in `seen` nor earlier in ps, in order
RECURSIVE Fresh(_, _)
Fresh(ps, seen) ==
    IF Len(ps) = 0 THEN <<>>
    ELSE IF Head(ps) \in seen THEN Fresh(Tail(ps), seen)
         ELSE <<Head(ps)>> \o Fresh(Tail(ps), seen \cup {Head(ps)})

\* str::contains(pat)
Contains(s, pat) ==
    \E i \in 1..(Len(s) - Len(pat) + 1) : SubSeq(s, i, i + Len(pat) - 1) = pat

\* the least element of a non-empty set of numbers
Min(S) == CHOOSE x \in S : \A y \in S : x <= y

\* str::split(sep) for a one-character separator: the pieces of s from
\* position `start` on, empty ones kept; `hits` are the separator's positions
\* from `start` on
RECURSIVE SplitAt(_, _, _)
SplitAt(s, hits, start) ==
    IF hits = {} THEN <<SubSeq(s, start, Len(s))>>
    ELSE LET h == Min(hits)
         IN <<SubSeq(s, start, h - 1)>> \o SplitAt(s, hits \ {h}, h + 1)

Split(s, sep) == SplitAt(s, {i \in 1..Len(s) : Char(s, i) = sep}, 1)

\* [String]::join(sep)
RECURSIVE Join(_, _)
Join(pieces, sep) ==
    IF Len(pieces) = 0 THEN ""
    ELSE IF Len(pieces) = 1 THEN pieces[1]
         ELSE pieces[1] \o sep \o Join(Tail(pieces), sep)

\* the greatest element of a non-empty set of numbers
Max(S) == CHOOSE x \in S : \A y \in S : x >= y

\* str::replace(from, to) for a one-character `from`
Replace(s, from, to) == Join(Split(s, from), to)

\* str::trim_end(), the strings of the model holding no white space but " "
trim_end(s) ==
    LET solid == {i \in 1..Len(s) : Char(s, i) # " "}
    IN IF solid = {} THEN "" ELSE SubSeq(s, 1, Max(solid))

\* bool::to_string()
bool_to_string(b) == IF b THEN "true" ELSE "false"

\* every ordering of the elements of a finite set
Orderings(S) ==
    {o \in [1..Cardinality(S) -> S] : \A i, j \in DOMAIN o : i # j => o[i] # o[j]}

(***************************************************************************)
(* Permission and ScopeBuilder (lib.rs)                                    *)
(***************************************************************************)
Permission ==
    { "ControlCharge", "ControlSecurity", "ReadBattery", "ReadCharge",
      "ReadEngineOil", "ReadFuel", "ReadLocation", "ReadOdometer",
      "ReadSecurity", "ReadTires", "ReadVehicleInfo", "ReadVin",
      "ControlClimate", "ReadChargeEvents", "ReadChargeLocations",
      "ReadChargeRecords", "ReadClimate", "ReadCompass",
      "ReadExtendedVehicleInfo", "ReadSpeedeomter", "ReadThermometer" }

as_str(p) ==
    CASE p = "ControlCharge" -> "control_charge"
      [] p = "ControlClimate" -> "control_climate"
      [] p = "ControlSecurity" -> "control_security"
      [] p = "ReadBattery" -> "read_battery"
      [] p = "ReadCharge" -> "read_charge"
      [] p = "ReadChargeEvents" -> "read_charge_events"
      [] p = "ReadChargeLocations" -> "read_charge_locations"
      [] p = "ReadChargeRecords" -> "read_charge_records"
      [] p = "ReadClimate" -> "read_climate"
      [] p = "ReadCompass" -> "read_compass"
      [] p = "ReadEngineOil" -> "read_engine_oil"
      [] p = "ReadExtendedVehicleInfo" -> "read_extended_vehicle_info"
      [] p = "ReadFuel" -> "read_fuel"
      [] p = "ReadLocation" -> "read_location"
      [] p = "ReadOdometer" -> "read_odometer"
      [] p = "ReadSecurity" -> "read_security"
      [] p = "ReadSpeedeomter" -> "read_speedometer"
      [] p = "ReadThermometer" -> "read_thermometer"
      [] p = "ReadTires" -> "read_tires"
      [] p = "ReadVehicleInfo" -> "read_vehicle_info"
      [] p = "ReadVin" -> "read_vin"

\* ScopeBuilder::new()
new == [permissions |-> {}, query_value |-> ""]

\* mutant: the permission is pushed without looking it up in the set
add_permission_unchecked(sb, p) ==
    [permissions |-> sb.permissions \cup {p},
     query_value |->
        (IF sb.query_value # "" THEN sb.query_value \o " " ELSE sb.query_value)
            \o as_str(p)]

\* mutant: the permission goes into the set and its token is not pushed
add_permission_untold(sb, p) ==
    [permissions |-> sb.permissions \cup {p}, query_value |-> sb.query_value]

\* ScopeBuilder::add_permission
add_permission(sb, p) ==
    IF p \notin sb.permissions
    THEN [permissions |-> sb.permissions \cup {p},
          query_value |->
            (IF sb.query_value # "" THEN sb.query_value \o " " ELSE sb.query_value)
                \o as_str(p)]
    ELSE sb

\* mutant: the separator is pushed after every token instead of between tokens
RECURSIVE add_permissions_trailing(_, _)
add_permissions_trailing(sb, ps) ==
    IF Len(ps) = 0 THEN sb
    ELSE LET p == Head(ps)
             next == IF p \notin sb.permissions
                     THEN [permissions |-> sb.permissions \cup {p},
                           query_value |-> sb.query_value \o as_str(p) \o " "]
                     ELSE sb
         IN add_permissions_trailing(next, Tail(ps))

\* mutant: the slice is walked from its last element to its first
RECURSIVE add_permissions_reversed(_, _)
add_permissions_reversed(sb, ps) ==
    IF Len(ps) = 0 THEN sb
    ELSE LET p == ps[Len(ps)]
             next == IF p \notin sb.permissions
                     THEN [permissions |-> sb.permissions \cup {p},
                           query_value |->
                             (IF sb.query_value # "" THEN sb.query_value \o " "
                              ELSE sb.query_value) \o as_str(p)]
                     ELSE sb
         IN add_permissions_reversed(next, SubSeq(ps, 1, Len(ps) - 1))

\* ScopeBuilder::add_permissions: the loop over the slice
RECURSIVE add_permissions(_, _)
add_permissions(sb, ps) ==
    IF Len(ps) = 0 THEN sb
    ELSE LET p == Head(ps)
             next == IF p \notin sb.permissions
                     THEN [permissions |-> sb.permissions \cup {p},
                           query_value |->
                             (IF sb.query_value # "" THEN sb.query_value \o " "
                              ELSE sb.query_value) \o as_str(p)]
                     ELSE sb
         IN add_permissions(next, Tail(ps))

\* the vec! of ScopeBuilder::with_all_permissions
AllPermissionsVec ==
    << "ControlCharge", "ControlSecurity", "ReadBattery", "ReadCharge",
       "ReadEngineOil", "ReadFuel", "ReadLocation", "ReadOdometer",
       "ReadSecurity", "ReadTires", "ReadVehicleInfo", "ReadVin",
       "ReadCompass", "ReadSpeedeomter", "ReadThermometer" >>

\* ScopeBuilder::with_all_permissions()
with_all_permissions == add_permissions(new, AllPermissionsVec)

\* the builder a constructor returns
Constructed(c) == IF c = "with_all_permissions" THEN with_all_permissions ELSE new

\* ghost: the permissions the constructor handed to add_permissions
CtorVec(c) == IF c = "with_all_permissions" THEN AllPermissionsVec ELSE <<>>

(***************************************************************************)
(* Environment and helpers (helpers.rs)                                    *)
(***************************************************************************)
EnvNames ==
    { "SMARTCAR_API_ORIGIN", "SMARTCAR_AUTH_ORIGIN", "SMARTCAR_CONNECT_URL",
      "SMARTCAR_CLIENT_ID", "SMARTCAR_CLIENT_SECRET", "SMARTCAR_REDIRECT_URI" }

\* an environment that sets none of the variables
NoEnv == [n \in EnvNames |-> None]

\* std::env::var(name): Ok(value) as Some(value), Err(_) as None
env_var(e, name) == e[name]

get_connect_url(e) ==
    IF IsSome(env_var(e, "SMARTCAR_CONNECT_URL"))
    THEN Unwrap(env_var(e, "SMARTCAR_CONNECT_URL"))
    ELSE "https://connect.smartcar.com"

\* format_flag_query: `flags` is the HashMap as a function from its keys to
\* their values, `order` the order in which flags.keys() yields the keys
\* (a HashMap iterates in an arbitrary order)
RECURSIVE push_flags(_, _, _)
push_flags(query, flags, order) ==
    IF Len(order) = 0 THEN query
    ELSE push_flags(query \o Head(order) \o ":" \o flags[Head(order)] \o " ",
                    flags, Tail(order))

format_flag_query(flags, order) ==
    IF Cardinality(DOMAIN flags) = 0 THEN ""
    ELSE trim_end(push_flags("", flags, order))

(***************************************************************************)
(* MultiQuery (request.rs)                                                 *)
(***************************************************************************)
\* MultiQuery::multi_query, given the vector self.vectorize() returns
RECURSIVE multi_query_from(_, _, _)
multi_query_from(query_string, query_vec, i) ==
    IF i > Len(query_vec) THEN query_string
    ELSE multi_query_from(
            query_string \o (IF i # 1 THEN "&" ELSE "")
                \o query_vec[i][1] \o "=" \o query_vec[i][2],
            query_vec, i + 1)

multi_query(query_vec) == multi_query_from("", query_vec, 1)

(***************************************************************************)
(* AuthUrlOptionsBuilder and AuthClient (auth_client.rs)                   *)
(***************************************************************************)
AuthUrlOptionsBuilder_new ==
    [force_prompt |-> None, state |-> None, make_bypass |-> None,
     single_select_by_vin |-> None, single_select |-> None, flags |-> None]

set_force_prompt(self, enabled) == [self EXCEPT !.force_prompt = Some(enabled)]

set_state(self, state) == [self EXCEPT !.state = Some(state)]

set_make_bypass(self, make) == [self EXCEPT !.make_bypass = Some(make)]

set_single_select(self, enabled) == [self EXCEPT !.single_select = Some(enabled)]

set_single_select_by_vin(self, vin) ==
    [self EXCEPT !.single_select_by_vin = Some(vin)]

set_flags(self, flags) == [self EXCEPT !.flags = Some(flags)]

\* vectorize with the single_select of set_single_select pushed as well
AuthUrlOptionsBuilder_vectorize_both(self, order) ==
    (IF IsSome(self.force_prompt) /\ Unwrap(self.force_prompt) = TRUE
     THEN << <<"approval_prompt", "force">> >> ELSE <<>>)
    \o (IF IsSome(self.state) THEN << <<"state", Unwrap(self.state)>> >> ELSE <<>>)
    \o (IF IsSome(self.make_bypass)
        THEN << <<"make", Unwrap(self.make_bypass)>> >> ELSE <<>>)
    \o (IF IsSome(self.flags)
        THEN << <<"flag", format_flag_query(Unwrap(self.flags), order)>> >>
        ELSE <<>>)
    \o (IF IsSome(self.single_select_by_vin)
        THEN << <<"single_select_vin", Unwrap(self.single_select_by_vin)>>,
                <<"single_select", "true">> >>
        ELSE <<>>)
    \o (IF IsSome(self.single_select)
        THEN << <<"single_select", bool_to_string(Unwrap(self.single_select))>> >>
        ELSE <<>>)

\* impl MultiQuery for AuthUrlOptionsBuilder: vectorize
AuthUrlOptionsBuilder_vectorize(self, order) ==
    (IF IsSome(self.force_prompt) /\ Unwrap(self.force_prompt) = TRUE
     THEN << <<"approval_prompt", "force">> >> ELSE <<>>)
    \o (IF IsSome(self.state) THEN << <<"state", Unwrap(self.state)>> >> ELSE <<>>)
    \o (IF IsSome(self.make_bypass)
        THEN << <<"make", Unwrap(self.make_bypass)>> >> ELSE <<>>)
    \o (IF IsSome(self.flags)
        THEN << <<"flag", format_flag_query(Unwrap(self.flags), order)>> >>
        ELSE <<>>)
    \o (IF IsSome(self.single_select_by_vin)
        THEN << <<"single_select_vin", Unwrap(self.single_select_by_vin)>>,
                <<"single_select", "true">> >>
        ELSE IF IsSome(self.single_select)
             THEN << <<"single_select", bool_to_string(Unwrap(self.single_select))>> >>
             ELSE <<>>)

\* GetAuthUrlOptions::build_query_string: the options type without flags;
\* its single_select of false is written with a space after it
build_query_string(self) ==
    (IF IsSome(self.force_prompt) /\ Unwrap(self.force_prompt) = TRUE
     THEN "&approval_prompt=" \o "force" ELSE "")
    \o (IF IsSome(self.state) THEN "&state=" \o Unwrap(self.state) ELSE "")
    \o (IF IsSome(self.make_bypass) THEN "&make=" \o Unwrap(self.make_bypass) ELSE "")
    \o (IF IsSome(self.single_select_by_vin)
        THEN "&single_select_vin=" \o Unwrap(self.single_select_by_vin)
                \o "&single_select=true"
        ELSE IF IsSome(self.single_select)
             THEN "&single_select="
                    \o (IF Unwrap(self.single_select) = TRUE THEN "true" ELSE "false ")
             ELSE "")

\* AuthClient::new
AuthClient_new(client_id, client_secret, redirect_uri, test_mode) ==
    [client_id |-> client_id, client_secret |-> client_secret,
     redirect_uri |-> redirect_uri, test_mode |-> test_mode]

\* impl MultiQuery for AuthClient: vectorize
AuthClient_vectorize(self) ==
    << <<"client_id", self.client_id>>,
       <<"client_secret", self.client_secret>>,
       <<"redirect_uri", self.redirect_uri>> >>
    \o (IF self.test_mode THEN << <<"mode", "test">> >> ELSE <<>>)

\* get_auth_url with the url returned as assembled
get_auth_url_unescaped(self, sb, opts, order, e) ==
    LET url1 == get_connect_url(e) \o "/oauth/authorize?scope=" \o sb.query_value
                    \o "&response_type=code&" \o multi_query(AuthClient_vectorize(self))
        options_query ==
            IF IsSome(opts)
            THEN multi_query(AuthUrlOptionsBuilder_vectorize(Unwrap(opts), order))
            ELSE ""
        url2 == IF IsSome(opts) /\ Len(options_query) > 0
                THEN url1 \o "&" \o options_query ELSE url1
    IN IF ~Contains(url2, "approval_prompt")
       THEN url2 \o "&approval_prompt=auto" ELSE url2

\* AuthClient::get_auth_url; `opts` is the Option<&AuthUrlOptionsBuilder>,
\* `order` the iteration order of the flags map, `e` the environment
get_auth_url(self, sb, opts, order, e) ==
    LET url1 == get_connect_url(e) \o "/oauth/authorize?scope=" \o sb.query_value
                    \o "&response_type=code&" \o multi_query(AuthClient_vectorize(self))
        options_query ==
            IF IsSome(opts)
            THEN multi_query(AuthUrlOptionsBuilder_vectorize(Unwrap(opts), order))
            ELSE ""
        url2 == IF IsSome(opts) /\ Len(options_query) > 0
                THEN url1 \o "&" \o options_query ELSE url1
        url3 == IF ~Contains(url2, "approval_prompt")
                THEN url2 \o "&approval_prompt=auto" ELSE url2
    IN Replace(url3, " ", "%20")

(***************************************************************************)
(* Bounds and inputs of the authorization URL model                        *)
(***************************************************************************)
\* how many options of one AuthUrlOptionsBuilder are set
MaxSetters == 2

\* the strings handed to set_state, set_make_bypass, set_single_select_by_vin
ArgStrings == {"mercedes", "two words", "a&make=b", "approval_prompt"}

\* the maps handed to set_flags
ArgFlags ==
    { <<>>,
      [k \in {"country"} |-> "DE"],
      [k \in {"black", "good"} |-> IF k = "black" THEN "flag" ELSE "band"],
      [k \in {"a&b"} |-> "c=d "] }

\* the clients the model constructs
ArgClients ==
    { AuthClient_new("test-client-id", "test-client-secret", "test.com", TRUE),
      AuthClient_new("test-client-id", "test-client-secret", "test.com", FALSE),
      AuthClient_new("id&mode=test", "s3cr=t", "https://example.com/cb?a=1&b=2",
                     FALSE) }

\* a client whose credentials hold spaces
SpacedClient == AuthClient_new("my id", "my secret", "test.com/a b", TRUE)

\* the values of SMARTCAR_CONNECT_URL
ArgConnectUrls == {None, Some("http://localhost:8000")}

\* the permissions handed to the scope builders of the model
ArgScopes == {<<"ReadEngineOil", "ReadFuel", "ReadVin">>}

\* builders with four options set already: the one of the test
\* get_auth_url_options_query_build, and one with flags and a single_select
ArgOptions ==
    { set_force_prompt(
        set_single_select_by_vin(
            set_state(set_make_bypass(AuthUrlOptionsBuilder_new, "mercedes"),
                      "no-michael-no-no-michael"),
            "THATISSONOTRIGHT"),
        TRUE),
      set_single_select(
        set_flags(
            set_state(set_force_prompt(AuthUrlOptionsBuilder_new, TRUE), "mercedes"),
            [k \in {"black", "good"} |-> IF k = "black" THEN "flag" ELSE "band"]),
        FALSE) }

\* no client constructed
NoClient == AuthClient_new("", "", "", FALSE)

\* nothing called yet, or the latest call returned the builder it was given
NoCall == [op |-> "none"]

\* how many options of the builder are set
NumSet(o) ==
    Cardinality({f \in DOMAIN o : IsSome(o[f])})

\* a setter of field f may run: the field is set already or the bound allows one more
MaySet(f) == IsSome(options[f]) \/ NumSet(options) < MaxSetters

\* the authorization URL's variables where a specification does not use them
AuthUnused ==
    /\ env = NoEnv
    /\ client = NoClient
    /\ options = AuthUrlOptionsBuilder_new

\* no vehicle handle constructed
NoVehicle == [id |-> "", access_token |-> "", unit_system |-> "Metric"]

\* the transport has given nothing back
NoReply == [kind |-> "none"]

\* the request sender's variables where a specification does not use them
SendUnused ==
    /\ vehicle = NoVehicle
    /\ pc = "idle"
    /\ call = NoCall
    /\ wire = <<>>
    /\ reply = NoReply
    /\ sendRet = NoCall

\* no credentials builder, nothing constructed, no task
NoBuilder == [op |-> "none"]

NoTasks == <<>>

\* the construction and task variables where a specification does not use them
LifeUnused ==
    /\ builder = NoBuilder
    /\ built = NoBuilder
    /\ tasks = NoTasks

\* the scope builder's variables where a specification does not use them
ScopeUnused ==
    /\ ctor = "new"
    /\ scope = new
    /\ added = <<>>

(***************************************************************************)
(* The authorization URL operations                                        *)
(***************************************************************************)
InitAuth ==
    /\ ctor \in {"new", "with_all_permissions"}
    /\ added \in IF ctor = "new" THEN ArgScopes ELSE {<<>>}
    /\ scope = add_permissions(Constructed(ctor), added)
    /\ \E u \in ArgConnectUrls : env = [NoEnv EXCEPT !["SMARTCAR_CONNECT_URL"] = u]
    /\ client \in ArgClients
                    \cup (IF ctor = "new" /\ env = NoEnv THEN {SpacedClient} ELSE {})
    /\ options \in {AuthUrlOptionsBuilder_new}
                    \cup (IF ctor = "new" /\ env = NoEnv /\ client.test_mode
                             /\ client.client_id = "test-client-id"
                          THEN ArgOptions ELSE {})
    /\ ret = NoCall
    /\ SendUnused
    /\ LifeUnused

SetForcePrompt(enabled) ==
    /\ MaySet("force_prompt")
    /\ options' = set_force_prompt(options, enabled)
    /\ ret' = NoCall
    /\ UNCHANGED <<scopeVars, env, client, sendVars, lifeVars>>

SetState(state) ==
    /\ MaySet("state")
    /\ options' = set_state(options, state)
    /\ ret' = NoCall
    /\ UNCHANGED <<scopeVars, env, client, sendVars, lifeVars>>

SetMakeBypass(make) ==
    /\ MaySet("make_bypass")
    /\ options' = set_make_bypass(options, make)
    /\ ret' = NoCall
    /\ UNCHANGED <<scopeVars, env, client, sendVars, lifeVars>>

SetSingleSelect(enabled) ==
    /\ MaySet("single_select")
    /\ options' = set_single_select(options, enabled)
    /\ ret' = NoCall
    /\ UNCHANGED <<scopeVars, env, client, sendVars, lifeVars>>

SetSingleSelectByVin(vin) ==
    /\ MaySet("single_select_by_vin")
    /\ options' = set_single_select_by_vin(options, vin)
    /\ ret' = NoCall
    /\ UNCHANGED <<scopeVars, env, client, sendVars, lifeVars>>

SetFlags(flags) ==
    /\ MaySet("flags")
    /\ options' = set_flags(options, flags)
    /\ ret' = NoCall
    /\ UNCHANGED <<scopeVars, env, client, sendVars, lifeVars>>

\* get_auth_url(&scope, opts) on the client; the flags map iterates in `order`
GetAuthUrl(opts, order) ==
    /\ ret' = [op |-> "get_auth_url", options |-> opts, order |-> order,
               url |-> get_auth_url(client, scope, opts, order, env)]
    /\ UNCHANGED <<scopeVars, authVars, sendVars, lifeVars>>

\* options.vectorize(), as the test get_auth_url_options_query_build calls it
Vectorize(order) ==
    /\ ret' = [op |-> "vectorize", options |-> options, order |-> order,
               query |-> AuthUrlOptionsBuilder_vectorize(options, order)]
    /\ UNCHANGED <<scopeVars, authVars, sendVars, lifeVars>>

\* GetAuthUrlOptions::build_query_string of a builder that holds no flags
BuildQueryString ==
    /\ IsNone(options.flags)
    /\ ret' = [op |-> "build_query_string", options |-> options,
               query |-> build_query_string(options)]
    /\ UNCHANGED <<scopeVars, authVars, sendVars, lifeVars>>

\* the orders in which the flags map of `o` may iterate
FlagOrders(o) ==
    IF IsSome(o.flags) THEN Orderings(DOMAIN Unwrap(o.flags)) ELSE {<<>>}

NextAuth ==
    \/ \E b \in BOOLEAN : SetForcePrompt(b)
    \/ \E v \in ArgStrings : SetState(v)
    \/ \E v \in ArgStrings : SetMakeBypass(v)
    \/ \E b \in BOOLEAN : SetSingleSelect(b)
    \/ \E v \in ArgStrings : SetSingleSelectByVin(v)
    \/ \E m \in ArgFlags : SetFlags(m)
    \/ GetAuthUrl(None, <<>>)
    \/ \E order \in FlagOrders(options) : GetAuthUrl(Some(options), order)
    \/ \E order \in FlagOrders(options) : Vectorize(order)
    \/ BuildQueryString

SpecAuth == InitAuth /\ [][NextAuth]_vars

(***************************************************************************)
(* Webhook helpers (webhooks.rs)                                           *)
(***************************************************************************)
\* Result: Ok(v) and Err(e)
Ok(v) == [ok |-> TRUE, value |-> v]

Err(e) == [ok |-> FALSE, error |-> e]

\* the printable ASCII characters from code 32 to code 95 and from code 97 to
\* code 126 (the character of code 96 cannot be written in a string here)
AsciiLow ==
    " !\"#$%&'()*+,-./0123456789:;<=>?@ABCDEFGHIJKLMNOPQRSTUVWXYZ[\\]^_"

AsciiHigh == "abcdefghijklmnopqrstuvwxyz{|}~"

\* the code of every character of the two strings
AsciiTable ==
    [c \in {Char(AsciiLow, i) : i \in 1..Len(AsciiLow)}
            \cup {Char(AsciiHigh, i) : i \in 1..Len(AsciiHigh)} |->
        IF \E i \in 1..Len(AsciiLow) : Char(AsciiLow, i) = c
        THEN 31 + CHOOSE i \in 1..Len(AsciiLow) : Char(AsciiLow, i) = c
        ELSE 96 + CHOOSE i \in 1..Len(AsciiHigh) : Char(AsciiHigh, i) = c]

AsciiCode(c) == AsciiTable[c]

\* str::as_bytes() of an ASCII string
as_bytes(s) == [i \in 1..Len(s) |-> AsciiCode(Char(s, i))]

\* hex::encode: two lowercase hexadecimal digits for every byte
HexDigit(n) == Char("0123456789abcdef", n + 1)

RECURSIVE hex_encode(_)
hex_encode(bytes) ==
    IF Len(bytes) = 0 THEN ""
    ELSE HexDigit(Head(bytes) \div 16) \o HexDigit(Head(bytes) % 16)
            \o hex_encode(Tail(bytes))

\* Hmac<Sha256>: new_from_slice(key), update(message), finalize().into_bytes().
\* The hmac and sha2 crates are not part of the repository: the digest is that
\* of an ideal MAC, a function of the pair (key, message) that gives different
\* pairs different digests.  new_from_slice accepts a key of any length.
HmacSha256(key, message) == <<Len(key)>> \o key \o message

\* mutant: the key and the message of the MAC change places
hash_challenge_swapped(amt, challenge) ==
    Ok(hex_encode(HmacSha256(as_bytes(amt), as_bytes(challenge))))

\* hash_challenge(amt, challenge)
hash_challenge(amt, challenge) ==
    Ok(hex_encode(HmacSha256(as_bytes(challenge), as_bytes(amt))))

\* mutant: the signature is checked against the hash of (body, amt)
verify_payload_swapped(amt, signature, body) ==
    IF hash_challenge(body, amt).ok
    THEN Ok(hash_challenge(body, amt).value = signature)
    ELSE hash_challenge(body, amt)

\* verify_payload(amt, signature, body)
verify_payload(amt, signature, body) ==
    IF hash_challenge(amt, body).ok
    THEN Ok(hash_challenge(amt, body).value = signature)
    ELSE hash_challenge(amt, body)

(***************************************************************************)
(* Inputs of the webhook model                                             *)
(***************************************************************************)
\* the management tokens, challenges and bodies of the model
ArgTexts == {"abc123abc123", "9c9c9c9c", "k"}

\* a signature with its i-th character changed to another hexadecimal digit
FlipChar(sig, i) ==
    SubSeq(sig, 1, i - 1) \o (IF Char(sig, i) = "0" THEN "1" ELSE "0")
        \o SubSeq(sig, i + 1, Len(sig))

\* the signatures handed to verify_payload: the hash of every pair of texts,
\* each also with its first and with its last character changed, and ""
ArgSignatures ==
    LET hashes == {hash_challenge(a, b).value : a \in ArgTexts, b \in ArgTexts}
    IN hashes \cup {FlipChar(h, 1) : h \in hashes}
              \cup {FlipChar(h, Len(h)) : h \in hashes} \cup {""}

(***************************************************************************)
(* The webhook operations                                                  *)
(***************************************************************************)
InitWebhook ==
    /\ ScopeUnused
    /\ AuthUnused
    /\ SendUnused
    /\ LifeUnused
    /\ ret = NoCall

HashChallenge(amt, challenge) ==
    /\ ret' = [op |-> "hash_challenge", amt |-> amt, challenge |-> challenge,
               result |-> hash_challenge(amt, challenge)]
    /\ UNCHANGED <<scopeVars, authVars, sendVars, lifeVars>>

VerifyPayload(amt, signature, body) ==
    /\ ret' = [op |-> "verify_payload", amt |-> amt, signature |-> signature,
               body |-> body, result |-> verify_payload(amt, signature, body)]
    /\ UNCHANGED <<scopeVars, authVars, sendVars, lifeVars>>

NextWebhook ==
    \/ \E amt \in ArgTexts, challenge \in ArgTexts : HashChallenge(amt, challenge)
    \/ \E amt \in ArgTexts, signature \in ArgSignatures, body \in ArgTexts :
            VerifyPayload(amt, signature, body)

SpecWebhook == InitWebhook /\ [][NextWebhook]_vars

(***************************************************************************)
(* Bounds of the scope model                                               *)
(***************************************************************************)
\* how many permissions the add calls choose from
NPool == 4

\* how many permissions are handed to the add calls of one builder
MaxAdds == 3

\* the longest slice handed to add_permissions
MaxSlice == 2

\* the permissions the add calls choose from: the first NPool of this list
PoolOrder ==
    << "ReadEngineOil", "ReadFuel", "ReadVin", "ControlClimate", "ReadCompass",
       "ControlCharge", "ReadChargeEvents", "ReadTires" >>

Pool == {PoolOrder[i] : i \in 1..NPool}

(***************************************************************************)
(* The scope builder's operations                                          *)
(***************************************************************************)
InitScope ==
    /\ ctor \in {"new", "with_all_permissions"}
    /\ scope = Constructed(ctor)
    /\ added = <<>>
    /\ AuthUnused
    /\ SendUnused
    /\ LifeUnused
    /\ ret = NoCall

AddPermission(p) ==
    /\ Len(added) < MaxAdds
    /\ scope' = add_permission(scope, p)
    /\ added' = Append(added, p)
    /\ UNCHANGED <<ctor, authVars, ret, sendVars, lifeVars>>

AddPermissions(ps) ==
    /\ Len(added) + Len(ps) <= MaxAdds
    /\ scope' = add_permissions(scope, ps)
    /\ added' = added \o ps
    /\ UNCHANGED <<ctor, authVars, ret, sendVars, lifeVars>>

NextScope ==
    \/ \E p \in Pool : AddPermission(p)
    \/ \E ps \in SeqsUpTo(Pool, MaxSlice) : AddPermissions(ps)

SpecScope == InitScope /\ [][NextScope]_vars

(***************************************************************************)
(* JSON values and serde deserialization (response.rs, error.rs)           *)
(***************************************************************************)
\* a JSON text, parsed: null, a boolean, a number written without or with a
\* fraction (v is the number, or a thousand times the number), a string, an
\* array, an object (a function of its member names)
JNull == [t |-> "null"]

JBool(b) == [t |-> "bool", v |-> b]

JInt(n) == [int |-> TRUE, t |-> "number", v |-> n]

JReal(thousandths) == [int |-> FALSE, t |-> "number", v |-> thousandths]

JString(s) == [t |-> "string", v |-> s]

JArray(elements) == [t |-> "array", v |-> elements]

JObject(members) == [t |-> "object", v |-> members]

\* an object without members
NoMembers == [n \in {} |-> JNull]

\* a body that is no JSON text at all (an HTML error page, an empty body)
NotJson == [t |-> "invalid"]

\* the Rust types of the response structs
TString == [k |-> "String"]

TI32 == [k |-> "i32"]

TF32 == [k |-> "f32"]

TBool == [k |-> "bool"]

TDateTime == [k |-> "DateTime"]

TOption(ty) == [k |-> "Option", of |-> ty]

TVec(ty) == [k |-> "Vec", of |-> ty]

THashMap(ty) == [k |-> "HashMap", of |-> ty]

TStruct(name) == [k |-> "Struct", name |-> name]

TUntagged(variants) == [k |-> "Untagged", variants |-> variants]

\* a struct field: its name, its #[serde(rename = ...)] if any, its type
Fd(field, rename, ty) == [field |-> field, rename |-> rename, ty |-> ty]

\* #[derive(Deserialize)] struct: its #[serde(rename_all = "camelCase")] and
\* its fields in declaration order
St(rename_all, fields) == [rename_all |-> rename_all, fields |-> fields]

\* enum SmartcarResponseBody, #[serde(untagged)]: the variants in
\* declaration order
SmartcarResponseBody ==
    << "ApplicationPermissions", "BatteryCapacity", "BatteryLevel",
       "ChargeLimit", "ChargingStatus", "EngineOilLife", "FuelTank",
       "Location", "LockStatus", "Odometer", "TirePressure",
       "VehicleAttributes", "Vin", "SmartcarError" >>

\* the structs of response.rs and error.rs
StructDef(name) ==
    CASE name = "Access" ->
            St(FALSE, << Fd("access_token", None, TString),
                         Fd("expires_in", None, TI32),
                         Fd("refresh_token", None, TString),
                         Fd("token_type", None, TString) >>)
      [] name = "ApplicationPermissions" ->
            St(FALSE, << Fd("permissions", None, TVec(TString)),
                         Fd("paging", None, TStruct("Paging")) >>)
      [] name = "EngineOilLife" ->
            St(TRUE, << Fd("life_remaining", None, TF32) >>)
      [] name = "BatteryCapacity" ->
            St(FALSE, << Fd("capacity", None, TF32) >>)
      [] name = "BatteryLevel" ->
            St(TRUE, << Fd("percent_remaining", None, TF32),
                        Fd("range", None, TF32) >>)
      [] name = "ChargingStatus" ->
            St(TRUE, << Fd("is_plugged_in", None, TBool),
                        Fd("state", None, TString) >>)
      [] name = "ChargeLimit" ->
            St(TRUE, << Fd("limit", None, TF32) >>)
      [] name = "FuelTank" ->
            St(TRUE, << Fd("range", None, TF32),
                        Fd("percent_remaining", None, TF32),
                        Fd("amount_remaining", None, TF32) >>)
      [] name = "Location" ->
            St(FALSE, << Fd("latitude", None, TF32),
                         Fd("longitude", None, TF32) >>)
      [] name = "Odometer" ->
            St(FALSE, << Fd("distance", None, TF32) >>)
      [] name = "Vehicles" ->
            St(FALSE, << Fd("vehicles", None, TVec(TString)),
                         Fd("paging", None, TStruct("Paging")) >>)
      [] name = "Paging" ->
            St(FALSE, << Fd("count", None, TI32), Fd("offset", None, TI32) >>)
      [] name = "TirePressure" ->
            St(TRUE, << Fd("front_left", None, TF32),
                        Fd("front_right", None, TF32),
                        Fd("back_left", None, TF32),
                        Fd("back_right", None, TF32) >>)
      [] name = "OpenStatus" ->
            St(FALSE, << Fd("_type", Some("type"), TString),
                         Fd("status", None, TString) >>)
      [] name = "LockStatus" ->
            St(TRUE, << Fd("is_locked", None, TBool),
                        Fd("doors", None, TVec(TStruct("OpenStatus"))),
                        Fd("windows", None, TVec(TStruct("OpenStatus"))),
                        Fd("sunroof", None, TVec(TStruct("OpenStatus"))),
                        Fd("storage", None, TVec(TStruct("OpenStatus"))),
                        Fd("charging_port", None, TVec(TStruct("OpenStatus"))) >>)
      [] name = "Vin" ->
            St(FALSE, << Fd("vin", None, TString) >>)
      [] name = "VehicleAttributes" ->
            St(FALSE, << Fd("id", None, TString), Fd("make", None, TString),
                         Fd("model", None, TString), Fd("year", None, TI32) >>)
      [] name = "User" ->
            St(FALSE, << Fd("id", None, TString) >>)
      [] name = "Action" ->
            St(FALSE, << Fd("message", None, TString),
                         Fd("status", None, TString) >>)
      [] name = "Status" ->
            St(FALSE, << Fd("status", None, TString) >>)
      [] name = "Subscribe" ->
            St(TRUE, << Fd("webhook_id", None, TString),
                        Fd("vehicle_id", None, TString) >>)
      [] name = "Capability" ->
            St(FALSE, << Fd("permission", None, TString),
                         Fd("endpoint", None, TString),
                         Fd("capable", None, TBool),
                         Fd("reason", None, TOption(TString)) >>)
      [] name = "Compatibility" ->
            St(FALSE, << Fd("compatible", None, TBool),
                         Fd("reason", None, TOption(TString)),
                         Fd("capabilities", None, TVec(TStruct("Capability"))) >>)
      [] name = "PagingCursor" ->
            St(FALSE, << Fd("cursor", None, TOption(TString)) >>)
      [] name = "GetConnection" ->
            St(TRUE, << Fd("user_id", None, TString),
                        Fd("vehicle_id", None, TString),
                        Fd("connected_at", None, TString),
                        Fd("mode", None, TString) >>)
      [] name = "GetConnections" ->
            St(FALSE, << Fd("connections", None, TVec(TStruct("GetConnection"))),
                         Fd("paging", None, TStruct("PagingCursor")) >>)
      [] name = "DeleteConnection" ->
            St(TRUE, << Fd("user_id", None, TString),
                        Fd("vehicle_id", None, TString) >>)
      [] name = "DeleteConnections" ->
            St(FALSE,
               << Fd("connections", None, TVec(TStruct("DeleteConnection"))) >>)
      [] name = "Meta" ->
            St(FALSE, << Fd("data_age", Some("sc-data-age"), TOption(TDateTime)),
                         Fd("request_id", Some("sc-request-id"), TOption(TString)),
                         Fd("unit_system", Some("sc-unit-system"),
                            TOption(TString)) >>)
      [] name = "BatchResponse" ->
            St(FALSE, << Fd("path", None, TString),
                         Fd("body", None, TUntagged(SmartcarResponseBody)),
                         Fd("code", None, TI32),
                         Fd("headers", None, TOption(TStruct("Meta"))) >>)
      [] name = "Batch" ->
            St(FALSE, << Fd("responses", None, TVec(TStruct("BatchResponse"))) >>)
      [] name = "SmartcarError" ->
            St(TRUE, << Fd("error_type", Some("type"), TString),
                        Fd("code", None, TOption(TString)),
                        Fd("description", None, TString),
                        Fd("doc_url", Some("docURL"), TString),
                        Fd("status_code", None, TI32),
                        Fd("resolution", None, THashMap(TOption(TString))),
                        Fd("request_id", None, TString) >>)

\* the upper-case letter of a lower-case one; any other character unchanged
LowerLetters == "abcdefghijklmnopqrstuvwxyz"

UpperLetters == "ABCDEFGHIJKLMNOPQRSTUVWXYZ"

to_ascii_uppercase(c) ==
    IF \E i \in 1..26 : Char(LowerLetters, i) = c
    THEN Char(UpperLetters, CHOOSE i \in 1..26 : Char(LowerLetters, i) = c)
    ELSE c

\* a word with its first letter in upper case
Capitalized(word) ==
    IF word = "" THEN ""
    ELSE to_ascii_uppercase(Char(word, 1)) \o SubSeq(word, 2, Len(word))

\* serde's rename_all = "camelCase" of a snake_case field name
camelCaseOf(words) ==
    words[1] \o Join([i \in 1..(Len(words) - 1) |-> Capitalized(words[i + 1])], "")

camelCase(field) == camelCaseOf(Split(field, "_"))

\* the name a field has in the JSON object
WireName(rename_all, fd) ==
    IF IsSome(fd.rename) THEN Unwrap(fd.rename)
    ELSE IF rename_all THEN camelCase(fd.field)
    ELSE fd.field

\* the wire names of the fields of a struct, in declaration order
WireNames(def) ==
    [i \in 1..Len(def.fields) |-> WireName(def.rename_all, def.fields[i])]

\* whether an integer is in the range of an i32
IsI32(n) == n >= -2147483647 - 1 /\ n <= 2147483647

\* the value of a run of decimal digits of s, -1 when a character is no digit
Digits == "0123456789"

IsDigit(c) == \E d \in 1..10 : Char(Digits, d) = c

DigitValue(c) == (CHOOSE d \in 1..10 : Char(Digits, d) = c) - 1

RECURSIVE Number(_, _, _)
Number(s, from, to) ==
    IF to < from THEN 0
    ELSE IF ~IsDigit(Char(s, to)) \/ Number(s, from, to - 1) < 0 THEN -1
    ELSE 10 * Number(s, from, to - 1) + DigitValue(Char(s, to))

DaysIn(year, month) ==
    IF month \in {4, 6, 9, 11} THEN 30
    ELSE IF month # 2 THEN 31
    ELSE IF year % 4 = 0 /\ (year % 100 # 0 \/ year % 400 = 0) THEN 29
    ELSE 28

\* chrono: a UTC timestamp "2022-09-05T19:57:31.037Z" (the format
\* "%Y-%m-%dT%H:%M:%S%.3fZ" of meta.rs and serde's RFC 3339 reading of a
\* DateTime<Utc>), None when the text is not such a timestamp.  The texts of
\* the model are of this exact width or no timestamps at all.
parse_timestamp(s) ==
    IF Len(s) # 24 THEN None
    ELSE LET year == Number(s, 1, 4)
             month == Number(s, 6, 7)
             day == Number(s, 9, 10)
             hour == Number(s, 12, 13)
             minute == Number(s, 15, 16)
             second == Number(s, 18, 19)
             milli == Number(s, 21, 23)
         IN IF /\ Char(s, 5) = "-" /\ Char(s, 8) = "-" /\ Char(s, 11) = "T"
               /\ Char(s, 14) = ":" /\ Char(s, 17) = ":" /\ Char(s, 20) = "."
               /\ Char(s, 24) = "Z"
               /\ year >= 0 /\ month \in 1..12 /\ day >= 1
               /\ day <= DaysIn(year, month)
               /\ hour \in 0..23 /\ minute \in 0..59 /\ second \in 0..59
               /\ milli >= 0
            THEN Some([year |-> year, month |-> month, day |-> day,
                       hour |-> hour, minute |-> minute, second |-> second,
                       milli |-> milli])
            ELSE None

\* Option::ok_or
ok_or(opt, err) == IF IsSome(opt) THEN Ok(Unwrap(opt)) ELSE Err(err)

\* Result::map(Some)
map_some(r) == IF r.ok THEN Ok(Some(r.value)) ELSE r

\* the values of the results rs, a sequence or a map, when all are Ok
collect(rs) ==
    IF \A i \in DOMAIN rs : rs[i].ok THEN Ok([i \in DOMAIN rs |-> rs[i].value])
    ELSE Err("invalid type")

\* the struct of fields fds whose i-th field read as rs[i]
struct_of(fds, rs) ==
    IF \A i \in 1..Len(fds) : rs[i].ok
    THEN Ok([n \in {fds[i].field : i \in 1..Len(fds)} |->
                rs[CHOOSE i \in 1..Len(fds) : fds[i].field = n].value])
    ELSE Err("invalid struct")

\* the first variant that read, under the variant's name
first_ok(variants, rs) ==
    IF \A i \in 1..Len(variants) : ~rs[i].ok
    THEN Err("data did not match any variant")
    ELSE Ok([variant |-> variants[Min({i \in 1..Len(variants) : rs[i].ok})],
             value |-> rs[Min({i \in 1..Len(variants) : rs[i].ok})].value])

\* serde: the value of Rust type ty that the JSON value j deserializes to, or
\* the error.  A struct is read from an object (members looked up by wire
\* name, unknown members skipped, a missing Option member None) or from an
\* array of its fields in order; an untagged enum is its first variant that
\* reads.  An f32 is kept as a thousand times its value.
RECURSIVE Deserialize(_, _), DeserializeStruct(_, _, _)
Deserialize(ty, j) ==
    CASE ty.k = "String" ->
            IF j.t = "string" THEN Ok(j.v) ELSE Err("invalid type")
      [] ty.k = "bool" ->
            IF j.t = "bool" THEN Ok(j.v) ELSE Err("invalid type")
      [] ty.k = "i32" ->
            IF j.t # "number" THEN Err("invalid type")
            ELSE IF ~j.int THEN Err("invalid type")
            ELSE IF ~IsI32(j.v) THEN Err("invalid value")
            ELSE Ok(j.v)
      [] ty.k = "f32" ->
            IF j.t # "number" THEN Err("invalid type")
            ELSE IF j.int THEN Ok(1000 * j.v) ELSE Ok(j.v)
      [] ty.k = "DateTime" ->
            IF j.t # "string" THEN Err("invalid type")
            ELSE ok_or(parse_timestamp(j.v), "invalid value")
      [] ty.k = "Option" ->
            IF j.t = "null" THEN Ok(None) ELSE map_some(Deserialize(ty.of, j))
      [] ty.k = "Vec" ->
            IF j.t # "array" THEN Err("invalid type")
            ELSE collect([i \in 1..Len(j.v) |-> Deserialize(ty.of, j.v[i])])
      [] ty.k = "HashMap" ->
            IF j.t # "object" THEN Err("invalid type")
            ELSE collect([n \in DOMAIN j.v |-> Deserialize(ty.of, j.v[n])])
      [] ty.k = "Struct" ->
            DeserializeStruct(StructDef(ty.name).fields,
                              WireNames(StructDef(ty.name)), j)
      [] ty.k = "Untagged" ->
            first_ok(ty.variants,
                     [i \in 1..Len(ty.variants) |->
                        Deserialize(TStruct(ty.variants[i]), j)])

\* a struct of fields fds, of wire names `wires`, read from j
DeserializeStruct(fds, wires, j) ==
    IF j.t = "object"
    THEN struct_of(fds,
            [i \in 1..Len(fds) |->
                IF wires[i] \in DOMAIN j.v THEN Deserialize(fds[i].ty, j.v[wires[i]])
                ELSE IF fds[i].ty.k = "Option" THEN Ok(None)
                ELSE Err("missing field")])
    ELSE IF j.t # "array" THEN Err("invalid type")
    ELSE IF Len(j.v) # Len(fds) THEN Err("invalid length")
    ELSE struct_of(fds, [i \in 1..Len(fds) |-> Deserialize(fds[i].ty, j.v[i])])

\* serde_json::from_slice::<T>: the typed value of a body
from_slice(ty, body) ==
    IF body.t = "invalid" THEN Err("expected value") ELSE Deserialize(ty, body)

(***************************************************************************)
(* Errors and response metadata (error.rs, response/meta.rs)               *)
(***************************************************************************)
\* a panic of the calling thread, in the place of a returned value
Panic(message) == [ok |-> FALSE, panic |-> message]

IsPanic(r) == "panic" \in DOMAIN r

\* enum Error: impl From<reqwest::Error> and impl From<serde_json::Error>
\* (what the ? operator applies), and the variants the SDK constructs
Error_from_reqwest(e) == [kind |-> "SdkReqwestFailure", source |-> e]

Error_from_serde_json(e) == [kind |-> "SdkSerdeFailure", source |-> e]

Error_SmartcarError(sc_err) == [kind |-> "SmartcarError", error |-> sc_err]

Error_MissingParameters(msg) == [kind |-> "MissingParameters", msg |-> msg]

DeleteConnectionsFilterValidationError ==
    [kind |-> "DeleteConnectionsFilterValidationError"]

\* a response header value: its text when it holds visible ASCII only,
\* otherwise opaque bytes
HeaderText(text) == [visible |-> TRUE, text |-> text]

OpaqueHeader == [visible |-> FALSE, text |-> ""]

\* HeaderValue::to_str
to_str(h) == IF h.visible THEN Ok(h.text) ELSE Err("ToStrError")

to_ascii_lowercase(s) ==
    Join([i \in 1..Len(s) |->
            IF \E l \in 1..26 : Char(UpperLetters, l) = Char(s, i)
            THEN Char(LowerLetters,
                      CHOOSE l \in 1..26 : Char(UpperLetters, l) = Char(s, i))
            ELSE Char(s, i)], "")

\* HeaderMap::get(name): header names compare without case; a HeaderMap is a
\* function from the lower-case names of its headers
get_lowercase(headers, name) ==
    IF name \in DOMAIN headers THEN Some(headers[name]) ELSE None

HeaderMap_get(headers, name) == get_lowercase(headers, to_ascii_lowercase(name))

\* Option<&HeaderValue>: h.to_str().expect("a string") of a present header
expect_str(h) ==
    IF IsNone(h) THEN Ok(None)
    ELSE IF to_str(Unwrap(h)).ok THEN Ok(Some(to_str(Unwrap(h)).value))
    ELSE Panic("a string")

\* the Meta of the three header texts, or the panic of one of them
meta_of(age, unit, id) ==
    IF IsPanic(age) THEN age
    ELSE IF IsPanic(unit) THEN unit
    ELSE IF IsPanic(id) THEN id
    ELSE [data_age |-> IF IsSome(age.value) THEN parse_timestamp(Unwrap(age.value))
                       ELSE None,
          unit_system |-> unit.value,
          request_id |-> id.value]

\* generate_meta_from_headers: the Meta, or the panic of expect("a string")
generate_meta_from_headers(headers) ==
    meta_of(expect_str(HeaderMap_get(headers, "SC-Data-Age")),
            expect_str(HeaderMap_get(headers, "SC-Unit-System")),
            expect_str(HeaderMap_get(headers, "SC-Request-Id")))

(***************************************************************************)
(* Requests (request.rs, helpers.rs)                                       *)
(***************************************************************************)
get_api_url(e) ==
    IF IsSome(env_var(e, "SMARTCAR_API_ORIGIN"))
    THEN Unwrap(env_var(e, "SMARTCAR_API_ORIGIN"))
    ELSE "https://api.smartcar.com"

get_oauth_url(e) ==
    IF IsSome(env_var(e, "SMARTCAR_AUTH_ORIGIN"))
    THEN Unwrap(env_var(e, "SMARTCAR_AUTH_ORIGIN"))
    ELSE "https://auth.smartcar.com/oauth/token"

\* the management host; helpers.rs holds no get_management_url
get_management_url == "https://management.smartcar.com"

\* base64::encode: the standard alphabet, padded with "="
Base64Alphabet ==
    "ABCDEFGHIJKLMNOPQRSTUVWXYZabcdefghijklmnopqrstuvwxyz0123456789+/"

Base64Char(n) == Char(Base64Alphabet, n + 1)

RECURSIVE base64_encode(_)
base64_encode(bytes) ==
    IF Len(bytes) = 0 THEN ""
    ELSE IF Len(bytes) = 1
    THEN Base64Char(bytes[1] \div 4) \o Base64Char((bytes[1] % 4) * 16) \o "=="
    ELSE IF Len(bytes) = 2
    THEN Base64Char(bytes[1] \div 4)
            \o Base64Char((bytes[1] % 4) * 16 + bytes[2] \div 16)
            \o Base64Char((bytes[2] % 16) * 4) \o "="
    ELSE Base64Char(bytes[1] \div 4)
            \o Base64Char((bytes[1] % 4) * 16 + bytes[2] \div 16)
            \o Base64Char((bytes[2] % 16) * 4 + bytes[3] \div 64)
            \o Base64Char(bytes[3] % 64)
            \o base64_encode(SubSeq(bytes, 4, Len(bytes)))

get_bearer_token_header(access_token) == "Bearer " \o access_token

\* mutant: the secret is put before the id
get_basic_b64_auth_header_swapped(client_id, client_secret) ==
    "Basic " \o base64_encode(as_bytes(client_secret \o ":" \o client_id))

get_basic_b64_auth_header(client_id, client_secret) ==
    "Basic " \o base64_encode(as_bytes(client_id \o ":" \o client_secret))

\* SmartcarRequestBuilder: the request under construction
SmartcarRequestBuilder_new(url, verb) ==
    [verb |-> verb, url |-> url, headers |-> <<>>, query |-> <<>>,
     body |-> None, form |-> None]

add_header(rb, header, value) ==
    [rb EXCEPT !.headers = Append(@, <<header, value>>)]

add_query(rb, query, value) ==
    [rb EXCEPT !.query = Append(@, <<query, value>>)]

add_body(rb, body) == [rb EXCEPT !.body = Some(body)]

add_form(rb, form) == [rb EXCEPT !.form = Some(form)]

\* reqwest keeps the failure of its builder calls until send: a URL that is
\* no absolute http(s) URL, a header name that is no token, a header value
\* holding a control character
IsUrl(url) ==
    \E scheme \in {"http://", "https://"} :
        Len(url) > Len(scheme) /\ SubSeq(url, 1, Len(scheme)) = scheme

IsHeaderName(s) ==
    LET token == LowerLetters \o UpperLetters \o Digits \o "!#$%&'*+-.^_|~"
    IN s # "" /\ \A i \in 1..Len(s) : Contains(token, Char(s, i))

IsHeaderValue(s) ==
    \A i \in 1..Len(s) : Char(s, i) \in DOMAIN AsciiTable \/ Char(s, i) = "\t"

BuilderError(rb) ==
    \/ ~IsUrl(rb.url)
    \/ \E i \in 1..Len(rb.headers) :
            ~IsHeaderName(rb.headers[i][1]) \/ ~IsHeaderValue(rb.headers[i][2])

\* reqwest::Response::json::<T>: the typed body, or a reqwest::Error of the
\* decode kind
decode(data) ==
    IF data.ok THEN data ELSE Err([reqwest |-> "decode", cause |-> data.error])

Response_json(res, ty) == decode(from_slice(ty, res.body))

\* `let sc_err = res.json::<SmartcarError>().await?;
\* return Err(Error::SmartcarError(sc_err));`
provider_error(sc_err) ==
    IF sc_err.ok THEN Err(Error_SmartcarError(sc_err.value))
    ELSE Err(Error_from_reqwest(sc_err.error))

\* `Ok((res, meta))`, meta being a Meta or the panic that made none
with_meta(res, meta) ==
    IF IsPanic(meta) THEN meta ELSE Ok([res |-> res, meta |-> meta])

\* mutant: a failed request is sent a second time
send_retrying(rb, outcome) ==
    IF BuilderError(rb)
    THEN [wire |-> <<>>, result |-> Err(Error_from_reqwest([reqwest |-> "builder"]))]
    ELSE IF outcome.kind = "failure" \/ outcome.status # 200
    THEN [wire |-> <<rb, rb>>,
          result |-> Err(Error_from_reqwest([reqwest |-> "request"]))]
    ELSE [wire |-> <<rb>>,
          result |-> with_meta(outcome, generate_meta_from_headers(outcome.headers))]

\* SmartcarRequestBuilder::send, given what the transport gives back for the
\* request: the requests it puts on the wire and what it returns
send(rb, outcome) ==
    IF BuilderError(rb)
    THEN [wire |-> <<>>, result |-> Err(Error_from_reqwest([reqwest |-> "builder"]))]
    ELSE IF outcome.kind = "failure"
    THEN [wire |-> <<rb>>,
          result |-> Err(Error_from_reqwest([reqwest |-> "request"]))]
    ELSE IF outcome.status # 200
    THEN [wire |-> <<rb>>,
          result |-> provider_error(Response_json(outcome, TStruct("SmartcarError")))]
    ELSE [wire |-> <<rb>>,
          result |-> with_meta(outcome, generate_meta_from_headers(outcome.headers))]

(***************************************************************************)
(* The SDK calls (auth_client.rs, lib.rs, vehicle.rs, response/batch.rs)   *)
(***************************************************************************)
\* what a call does before its first await: it returns at once, or it hands
\* a request to send and reads the 200 body as the type ty (None: the caller
\* is given the response itself)
Return(result) == [do |-> "return", result |-> result]

Dispatch(rb, ty) == [do |-> "send", request |-> rb, ty |-> ty]

i32_to_string(n) == ToString(n)

exchange_code(self, code, e) ==
    Dispatch(
        add_form(
            add_header(
                add_header(SmartcarRequestBuilder_new(get_oauth_url(e), "POST"),
                           "Authorization",
                           get_basic_b64_auth_header(self.client_id,
                                                     self.client_secret)),
                "content_type", "application/x-www-form-urlencoded"),
            [grant_type |-> "authorization_code", code |-> code,
             redirect_uri |-> self.redirect_uri]),
        Some("Access"))

exchange_refresh_token(self, refresh_token, e) ==
    Dispatch(
        add_form(
            add_header(
                add_header(SmartcarRequestBuilder_new(get_oauth_url(e), "POST"),
                           "Authorization",
                           get_basic_b64_auth_header(self.client_id,
                                                     self.client_secret)),
                "content_type", "application/x-www-form-urlencoded"),
            [grant_type |-> "refresh_token", refresh_token |-> refresh_token]),
        Some("Access"))

get_user(acc, e) ==
    Dispatch(
        add_header(SmartcarRequestBuilder_new(get_api_url(e) \o "/v2.0/user", "GET"),
                   "Authorization", get_bearer_token_header(acc.access_token)),
        Some("User"))

\* `if let Some(v) = value { req = req.add_query(query, v) }`
add_query_if_some(rb, query, value) ==
    IF IsSome(value) THEN add_query(rb, query, Unwrap(value)) ELSE rb

\* Option<i32>::map(|n| n.to_string())
map_to_string(n) == IF IsSome(n) THEN Some(i32_to_string(Unwrap(n))) ELSE None

\* the field of an Option<struct>, None when the struct is None
and_then(opt, field) == IF IsSome(opt) THEN Unwrap(opt)[field] ELSE None

get_vehicles(acc, limit, offset, e) ==
    Dispatch(
        add_query_if_some(
            add_query_if_some(
                add_header(
                    SmartcarRequestBuilder_new(get_api_url(e) \o "/v2.0/vehicles",
                                               "GET"),
                    "Authorization", get_bearer_token_header(acc.access_token)),
                "limit", map_to_string(limit)),
            "offset", map_to_string(offset)),
        Some("Vehicles"))

\* mutant: the environment's value is taken before the one given
or_env_first(given, from_env) == IF IsSome(from_env) THEN from_env ELSE given

\* the value given in the options, else the environment's
or_env(given, from_env) == IF IsSome(given) THEN given ELSE from_env

\* the end of get_compatibility: the two early returns and the request
compatibility_step(req, client_id, client_secret) ==
    IF IsNone(client_id)
    THEN Return(Err(Error_MissingParameters(
            "compatibility::client id must be passed as an env variable (SMARTCAR_CLIENT_ID) OR via CompatibilityOptionsBuilder")))
    ELSE IF IsNone(client_secret)
    THEN Return(Err(Error_MissingParameters(
            "compatibility::client secret must be passed as an env variable (SMARTCAR_CLIENT_SECRET) OR via CompatibilityOptionsBuilder")))
    ELSE Dispatch(
            add_header(req, "Authorization",
                       get_basic_b64_auth_header(Unwrap(client_id),
                                                 Unwrap(client_secret))),
            Some("Compatibility"))

\* Option<HashMap>::map(format_flag_query), the map iterating in `order`
map_format_flag_query(flags, order) ==
    IF IsSome(flags) THEN Some(format_flag_query(Unwrap(flags), order)) ELSE None

\* get_compatibility; `order` is the order in which the flags map iterates
get_compatibility(vin, sb, country, opts, order, e) ==
    compatibility_step(
        add_query_if_some(
            add_query(
                add_query(
                    add_query(
                        SmartcarRequestBuilder_new(
                            get_api_url(e) \o "/v2.0/compatibility", "GET"),
                        "vin", vin),
                    "scope", sb.query_value),
                "country", country),
            "flags", map_format_flag_query(and_then(opts, "flags"), order)),
        or_env(and_then(opts, "client_id"), env_var(e, "SMARTCAR_CLIENT_ID")),
        or_env(and_then(opts, "client_secret"), env_var(e, "SMARTCAR_CLIENT_SECRET")))

get_connections(amt, filter, paging) ==
    Dispatch(
        add_query_if_some(
            add_query_if_some(
                add_query_if_some(
                    add_query_if_some(
                        add_header(
                            SmartcarRequestBuilder_new(
                                get_management_url \o "/v2.0/management/connections/",
                                "GET"),
                            "Authorization",
                            get_basic_b64_auth_header("default", amt)),
                        "vehicle_id", and_then(filter, "vehicle_id")),
                    "user_id", and_then(filter, "user_id")),
                "cursor_id", and_then(paging, "cursor_id")),
            "limit", map_to_string(and_then(paging, "limit"))),
        Some("GetConnections"))

\* mutant: a filter with both fields set passes
validate_either(self) ==
    IF IsNone(self.vehicle_id) /\ IsNone(self.user_id)
    THEN Err(DeleteConnectionsFilterValidationError)
    ELSE Ok(<<>>)

\* DeleteConnectionsFilters::validate
validate(self) ==
    IF IsSome(self.vehicle_id) /\ IsSome(self.user_id)
    THEN Err(DeleteConnectionsFilterValidationError)
    ELSE IF IsNone(self.vehicle_id) /\ IsNone(self.user_id)
    THEN Err(DeleteConnectionsFilterValidationError)
    ELSE Ok(<<>>)

\* `if let Err(validation_error) = filter.validate() { return Err(..) }`
\* before the request is sent
return_if_err(validation, step) ==
    IF ~validation.ok THEN Return(validation) ELSE step

\* Option<DeleteConnectionsFilters>: validate() of a filter that is given
validate_if_some(filter) ==
    IF IsSome(filter) THEN validate(Unwrap(filter)) ELSE Ok(<<>>)

delete_connections(amt, filter) ==
    return_if_err(
        validate_if_some(filter),
        Dispatch(
            add_query_if_some(
                add_query_if_some(
                    add_header(
                        SmartcarRequestBuilder_new(
                            get_management_url \o "/v2.0/management/connections/",
                            "DELETE"),
                        "Authorization", get_basic_b64_auth_header("default", amt)),
                    "vehicle_id", and_then(filter, "vehicle_id")),
                "user_id", and_then(filter, "user_id")),
            Some("DeleteConnections")))

Vehicle_new(vehicle_id, access_token) ==
    [id |-> vehicle_id, access_token |-> access_token, unit_system |-> "Metric"]

get_request_builder(self, path, verb, e) ==
    add_header(
        SmartcarRequestBuilder_new(
            get_api_url(e) \o "/v2.0/vehicles/" \o self.id \o path, verb),
        "Authorization", get_bearer_token_header(self.access_token))

\* Vehicle::request; `order` is the order in which the headers map iterates
RECURSIVE add_custom_headers(_, _, _)
add_custom_headers(rb, custom_headers, order) ==
    IF Len(order) = 0 THEN rb
    ELSE add_custom_headers(
            add_header(rb, Head(order), custom_headers[Head(order)]),
            custom_headers, Tail(order))

\* `if let Some(request_body) = body { ... add_body(request_body) }`
add_body_if_some(rb, body) ==
    IF IsSome(body) THEN add_body(rb, Unwrap(body)) ELSE rb

add_headers_if_some(rb, headers, order) ==
    IF IsSome(headers) THEN add_custom_headers(rb, Unwrap(headers), order) ELSE rb

Vehicle_request(self, path, verb, body, headers, order, e) ==
    Dispatch(
        add_headers_if_some(
            add_body_if_some(get_request_builder(self, path, verb, e), body),
            headers, order),
        None)

\* the Vehicle methods without arguments: the path, the verb, the body and
\* the payload type of each
VehicleMethods ==
    [ permissions |-> <<"/permissions", "GET", None, "ApplicationPermissions">>,
      engine_oil |-> <<"/engine/oil", "GET", None, "EngineOilLife">>,
      battery_capacity |-> <<"/battery/capacity", "GET", None, "BatteryCapacity">>,
      battery_level |-> <<"/battery", "GET", None, "BatteryLevel">>,
      charging_status |-> <<"/charge", "GET", None, "ChargingStatus">>,
      charge_limit |-> <<"/charge/limit", "GET", None, "ChargeLimit">>,
      fuel_tank |-> <<"/fuel", "GET", None, "FuelTank">>,
      location |-> <<"/location", "GET", None, "Location">>,
      odometer |-> <<"/odometer", "GET", None, "Odometer">>,
      tire_pressure |-> <<"/tires/pressure", "GET", None, "TirePressure">>,
      lock_status |-> <<"/security", "GET", None, "LockStatus">>,
      attributes |-> <<"/", "GET", None, "VehicleAttributes">>,
      vin |-> <<"/vin", "GET", None, "Vin">>,
      lock |-> <<"/security", "POST",
                 Some(JObject([action |-> JString("LOCK")])), "Action">>,
      unlock |-> <<"/securiy", "POST",
                   Some(JObject([action |-> JString("UNLOCK")])), "Action">>,
      start_charge |-> <<"/charge", "POST",
                         Some(JObject([action |-> JString("START")])), "Action">>,
      stop_charge |-> <<"/charge", "POST",
                        Some(JObject([action |-> JString("STOP")])), "Action">>,
      disconnect |-> <<"/application", "DELETE", None, "Status">> ]

endpoint(self, m, e) ==
    Dispatch(add_body_if_some(get_request_builder(self, m[1], m[2], e), m[3]),
             Some(m[4]))

Vehicle_method(self, method, e) == endpoint(self, VehicleMethods[method], e)

\* set_charge_limit; the f32 limit is a thousand times its value
set_charge_limit(self, limit, e) ==
    Dispatch(add_body(get_request_builder(self, "/charge/limit", "POST", e),
                      JObject([limit |-> JReal(limit)])),
             Some("Action"))

\* build_batch_request_body with the paths made a set first: one entry per
\* distinct path
build_batch_request_body_distinct(paths) ==
    Ok(JObject([requests |->
        JArray([i \in 1..Len(Fresh(paths, {})) |->
                    JObject([path |-> JString(Fresh(paths, {})[i])])])]))

\* build_batch_request_body: serde_json::to_value of a struct of strings
\* does not fail
build_batch_request_body(paths) ==
    Ok(JObject([requests |->
        JArray([i \in 1..Len(paths) |-> JObject([path |-> JString(paths[i])])])]))

batch_step(self, req_body, e) ==
    IF ~req_body.ok THEN Return(Err(Error_from_serde_json(req_body.error)))
    ELSE Dispatch(add_body(get_request_builder(self, "/batch", "POST", e),
                           req_body.value),
                  Some("Batch"))

batch(self, paths, e) == batch_step(self, build_batch_request_body(paths), e)

subscribe(self, webhook_id, e) ==
    Dispatch(get_request_builder(self, "/webhooks/" \o webhook_id, "POST", e),
             Some("Subscribe"))

unsubscribe(self, amt, webhook_id, e) ==
    Dispatch(
        add_header(
            SmartcarRequestBuilder_new(
                get_api_url(e) \o "/v2.0/vehicles/" \o self.id \o "/webhooks/"
                    \o webhook_id, "DELETE"),
            "Authorization", get_bearer_token_header(amt)),
        Some("Subscribe"))

\* the tail every call shares: `let (res, meta) = ....send().await?;
\* let data = res.json::<T>().await?; Ok((data, meta))`
typed(data, meta) ==
    IF data.ok THEN Ok([data |-> data.value, meta |-> meta])
    ELSE Err(Error_from_reqwest(data.error))

after_send(ty, sent) ==
    IF ~sent.ok THEN sent
    ELSE IF IsNone(ty) THEN sent
    ELSE typed(Response_json(sent.value.res, TStruct(Unwrap(ty))), sent.value.meta)

(***************************************************************************)
(* Inputs of the request model                                             *)
(***************************************************************************)
\* the Access values handed to get_user and get_vehicles: a token, and one
\* holding a line feed, which no header value may hold
ArgAccess ==
    { [access_token |-> t, expires_in |-> 7200, refresh_token |-> "refresh-1",
       token_type |-> "Bearer"] : t \in {"access-tok-1", "bad\ntoken"} }

\* the CompatibilityOptions handed to get_compatibility
ArgCompatibilityOptions ==
    { None,
      Some([client_id |-> None, client_secret |-> None, flags |-> None]),
      Some([client_id |-> Some("opt-id"), client_secret |-> None,
            flags |-> None]),
      Some([client_id |-> Some("opt-id"), client_secret |-> Some("opt-secret"),
            flags |-> Some([k \in {"country"} |-> "DE"])]) }

\* the filters handed to get_connections and delete_connections
ArgFilters ==
    {None} \cup
    { Some([vehicle_id |-> v, user_id |-> u]) :
        v \in {None, Some("veh-1")}, u \in {None, Some("user-1")} }

\* the paging handed to get_connections
ArgPaging == {None, Some([cursor_id |-> Some("cursor-1"), limit |-> Some(25)])}

\* the calls of the model, with their arguments
Calls ==
    {[op |-> "exchange_code", code |-> "code-1"],
     [op |-> "exchange_refresh_token", refresh_token |-> "refresh-1"]}
    \cup {[op |-> "get_user", acc |-> a] : a \in ArgAccess}
    \cup {[op |-> "get_vehicles", acc |-> a, limit |-> l[1], offset |-> l[2]] :
            a \in ArgAccess, l \in {<<None, None>>, <<Some(10), Some(20)>>}}
    \cup {[op |-> "get_compatibility", vin |-> "1FTFW1E57LFC12345",
           country |-> "US", options |-> o] : o \in ArgCompatibilityOptions}
    \cup {[op |-> "get_connections", amt |-> "amt-1", filter |-> f, paging |-> p] :
            f \in {None, Some([vehicle_id |-> Some("veh-1"), user_id |-> None])},
            p \in ArgPaging}
    \cup {[op |-> "delete_connections", amt |-> "amt-1", filter |-> f] :
            f \in ArgFilters}
    \cup {[op |-> "method", method |-> m] : m \in DOMAIN VehicleMethods}
    \cup {[op |-> "set_charge_limit", limit |-> 800]}
    \cup {[op |-> "batch", paths |-> ps] :
            ps \in {<<>>, <<"/odometer", "/fuel", "/odometer">>}}
    \cup {[op |-> "subscribe", webhook_id |-> "webhook-1"],
          [op |-> "unsubscribe", amt |-> "amt-1", webhook_id |-> "webhook-1"],
          [op |-> "request", path |-> "/odometer", verb |-> "GET", body |-> None,
           headers |-> Some([k \in {"sc-unit-system"} |-> "imperial"])],
          [op |-> "request", path |-> "/charge", verb |-> "POST",
           body |-> Some(JObject([action |-> JString("START")])),
           headers |-> Some([k \in {"bad header"} |-> "x"])]}

\* the environments of the model: nothing set, and a sandbox
SandboxEnv ==
    [NoEnv EXCEPT !["SMARTCAR_API_ORIGIN"] = Some("http://localhost:8000"),
                  !["SMARTCAR_AUTH_ORIGIN"] = Some("http://localhost:8000/oauth/token"),
                  !["SMARTCAR_CLIENT_ID"] = Some("env-id"),
                  !["SMARTCAR_CLIENT_SECRET"] = Some("env-secret")]

\* a JSON value that reads as the type ty
RECURSIVE Sample(_), SampleStruct(_, _)
Sample(ty) ==
    CASE ty.k = "String" -> JString("text")
      [] ty.k = "bool" -> JBool(TRUE)
      [] ty.k = "i32" -> JInt(7200)
      [] ty.k = "f32" -> JReal(12500)
      [] ty.k = "DateTime" -> JString("2022-09-05T19:57:31.037Z")
      [] ty.k = "Option" -> JNull
      [] ty.k = "Vec" -> JArray(<<Sample(ty.of)>>)
      [] ty.k = "HashMap" -> JObject([n \in {"type"} |-> Sample(ty.of)])
      [] ty.k = "Untagged" -> Sample(TStruct(ty.variants[1]))
      [] ty.k = "Struct" ->
            SampleStruct(StructDef(ty.name).fields, WireNames(StructDef(ty.name)))

\* an object that reads as the struct of fields fds, of wire names `wires`
SampleStruct(fds, wires) ==
    JObject([n \in Range(wires) |->
                Sample(fds[CHOOSE i \in 1..Len(fds) : wires[i] = n].ty)])

\* provider error bodies, and the error body of the token endpoint, which is
\* JSON but no provider error
PermissionErrorBody ==
    JObject([type |-> JString("PERMISSION"), code |-> JNull,
             description |-> JString("Insufficient permissions."),
             docURL |-> JString("https://smartcar.com/docs/errors/v2.0/other-errors/#permission"),
             statusCode |-> JInt(403),
             resolution |-> JObject([type |-> JNull]),
             requestId |-> JString("req-403")])

VehicleStateErrorBody ==
    JObject([type |-> JString("VEHICLE_STATE"), code |-> JString("ASLEEP"),
             description |-> JString("The vehicle is in a sleep state."),
             docURL |-> JString("https://smartcar.com/docs/errors/v2.0/vehicle-state/#asleep"),
             statusCode |-> JInt(409),
             resolution |-> JObject([type |-> JString("RETRY_LATER"),
                                     url |-> JNull]),
             requestId |-> JString("req-409"),
             suggestedUserMessage |-> JString("Wake the vehicle up.")])

OAuthErrorBody ==
    JObject([error |-> JString("invalid_grant"),
             error_description |-> JString("Invalid or expired authorization code.")])

\* the bodies a response to a call of payload type ty may carry
ArgBodies(ty) ==
    {NotJson, OAuthErrorBody, PermissionErrorBody, VehicleStateErrorBody}
    \cup (IF IsSome(ty) THEN {Sample(TStruct(Unwrap(ty)))} ELSE {})

\* the HTTP statuses of the model
ArgStatuses == {200, 201, 409}

\* the response headers of the model
ArgHeaders ==
    { [n \in {} |-> OpaqueHeader],
      [n \in {"sc-data-age", "sc-unit-system", "sc-request-id"} |->
        IF n = "sc-data-age" THEN HeaderText("2022-09-05T19:57:31.037Z")
        ELSE IF n = "sc-unit-system" THEN HeaderText("metric")
        ELSE HeaderText("req-1")],
      [n \in {"sc-data-age", "sc-request-id"} |->
        IF n = "sc-data-age" THEN HeaderText("yesterday") ELSE HeaderText("req-2")],
      [n \in {"sc-request-id"} |-> OpaqueHeader] }

\* how many entries the batch responses of the model hold at most
MaxEntries == 2

\* a body of none of the known shapes (the climate endpoint's), and a body
\* that holds the members of a provider error and of a Vin
ClimateBody == JObject([temperature |-> JReal(21500)])

ErrorWithVinBody ==
    JObject([type |-> JString("VEHICLE_STATE"), code |-> JString("ASLEEP"),
             description |-> JString("The vehicle is in a sleep state."),
             docURL |-> JString("https://smartcar.com/docs/errors/v2.0/vehicle-state/#asleep"),
             statusCode |-> JInt(409),
             resolution |-> JObject([type |-> JString("RETRY_LATER")]),
             requestId |-> JString("req-409"),
             vin |-> JString("1FTFW1E57LFC12345")])

\* the bodies of the entries of a batch response: one of every known shape,
\* and the two above
BatchEntryBodies ==
    { Sample(TStruct(SmartcarResponseBody[i])) :
        i \in 1..Len(SmartcarResponseBody) }
    \cup {ClimateBody, ErrorWithVinBody}

\* an entry of a batch response
BatchEntry(body) ==
    JObject([path |-> JString("/batched"), body |-> body,
             code |-> IF "statusCode" \in DOMAIN body.v THEN JInt(409)
                      ELSE JInt(200),
             headers |-> JObject([n \in {"sc-request-id"} |-> JString("req-1")])])

\* the bodies that stand side by side in the longer batch responses
SiblingBodies ==
    {Sample(TStruct("Odometer")), Sample(TStruct("FuelTank")),
     Sample(TStruct("SmartcarError")), ClimateBody}

\* the batch responses of the model: one entry of any body, and up to
\* MaxEntries entries of the bodies above
BatchBodies(ty) ==
    IF ty = Some("Batch")
    THEN { JObject([responses |->
                JArray([i \in 1..Len(bodies) |-> BatchEntry(bodies[i])])]) :
            bodies \in SeqsUpTo(SiblingBodies, MaxEntries)
                        \cup {<<b>> : b \in BatchEntryBodies} }
    ELSE {}

\* what the transport may give back: a failure (no connection, a timeout) or
\* a response
Failure == [kind |-> "failure"]

Outcomes(ty) ==
    {Failure}
    \cup { [kind |-> "response", status |-> s, headers |-> h, body |-> b] :
            s \in ArgStatuses, h \in ArgHeaders, b \in ArgBodies(ty) }
    \cup { [kind |-> "response", status |-> 200,
            headers |-> [n \in {} |-> OpaqueHeader], body |-> b] :
            b \in BatchBodies(ty) }

\* the AuthClients of the request model
SendClients ==
    { AuthClient_new("test-client-id", "test-client-secret", "test.com", TRUE),
      AuthClient_new("id-2", "secret-2", "https://example.com/cb", FALSE) }

(***************************************************************************)
(* The request operations                                                  *)
(***************************************************************************)
InitSend ==
    /\ ctor = "with_all_permissions"
    /\ added = <<>>
    /\ scope = with_all_permissions
    /\ env \in {NoEnv, SandboxEnv}
    /\ client \in SendClients
    /\ options = AuthUrlOptionsBuilder_new
    /\ vehicle = Vehicle_new("veh-1", "access-tok-1")
    /\ pc = "idle"
    /\ call = NoCall
    /\ wire = <<>>
    /\ reply = NoReply
    /\ sendRet = NoCall
    /\ ret = NoCall
    /\ LifeUnused

\* the call c up to its first await, on the handles and in the environment
\* of the state
Begin(c) ==
    CASE c.op = "exchange_code" -> exchange_code(client, c.code, env)
      [] c.op = "exchange_refresh_token" ->
            exchange_refresh_token(client, c.refresh_token, env)
      [] c.op = "get_user" -> get_user(c.acc, env)
      [] c.op = "get_vehicles" -> get_vehicles(c.acc, c.limit, c.offset, env)
      [] c.op = "get_compatibility" ->
            get_compatibility(c.vin, scope, c.country, c.options, <<"country">>, env)
      [] c.op = "get_connections" -> get_connections(c.amt, c.filter, c.paging)
      [] c.op = "delete_connections" -> delete_connections(c.amt, c.filter)
      [] c.op = "method" -> Vehicle_method(vehicle, c.method, env)
      [] c.op = "set_charge_limit" -> set_charge_limit(vehicle, c.limit, env)
      [] c.op = "batch" -> batch(vehicle, c.paths, env)
      [] c.op = "subscribe" -> subscribe(vehicle, c.webhook_id, env)
      [] c.op = "unsubscribe" -> unsubscribe(vehicle, c.amt, c.webhook_id, env)
      [] c.op = "request" ->
            Vehicle_request(vehicle, c.path, c.verb, c.body, c.headers,
                            CHOOSE o \in Orderings(DOMAIN Unwrap(c.headers)) : TRUE,
                            env)

\* a call begins: it returns at once, or its request goes on the wire and the
\* call awaits the transport
Started(c, step, sent) ==
    /\ call' = c
    /\ reply' = NoReply
    /\ IF step.do = "return"
       THEN /\ pc' = "done"
            /\ wire' = <<>>
            /\ sendRet' = NoCall
            /\ ret' = step.result
       ELSE IF BuilderError(step.request)
       THEN /\ pc' = "done"
            /\ wire' = sent.wire
            /\ sendRet' = sent.result
            /\ ret' = after_send(step.ty, sent.result)
       ELSE /\ pc' = "awaiting"
            /\ wire' = <<step.request>>
            /\ sendRet' = NoCall
            /\ ret' = NoCall

\* send, when the call made a request
send_if_request(step, outcome) ==
    IF step.do = "send" THEN send(step.request, outcome) ELSE NoCall

Call(c) ==
    /\ pc = "idle"
    /\ Started(c, Begin(c), send_if_request(Begin(c), NoReply))
    /\ UNCHANGED <<scopeVars, authVars, vehicle, lifeVars>>

\* the transport gives back `outcome`: send returns, the call reads the body
\* and returns
Delivered(ty, sent) ==
    /\ wire' = sent.wire
    /\ sendRet' = sent.result
    /\ ret' = after_send(ty, sent.result)

Deliver(outcome) ==
    /\ pc = "awaiting"
    /\ reply' = outcome
    /\ Delivered(Begin(call).ty, send(wire[1], outcome))
    /\ pc' = "done"
    /\ UNCHANGED <<scopeVars, authVars, vehicle, call, lifeVars>>

\* the caller has taken what the call returned: nothing of the call is left,
\* the SDK keeping no state of its own
Returned ==
    /\ pc = "done"
    /\ pc' = "idle"
    /\ call' = NoCall
    /\ wire' = <<>>
    /\ reply' = NoReply
    /\ sendRet' = NoCall
    /\ ret' = NoCall
    /\ UNCHANGED <<scopeVars, authVars, vehicle, lifeVars>>

NextSend ==
    \/ \E c \in Calls : Call(c)
    \/ /\ pc = "awaiting"
       /\ \E outcome \in Outcomes(Begin(call).ty) : Deliver(outcome)
    \/ Returned

SpecSend == InitSend /\ [][NextSend]_vars

(***************************************************************************)
(* Construction: the credentials builder, the environment, the handles     *)
(***************************************************************************)
\* SmartcarCredentialsBuilder::new: the three credentials as the environment
\* has them when the builder is made
SmartcarCredentialsBuilder_new(test_mode, e) ==
    [client_id |-> env_var(e, "SMARTCAR_CLIENT_ID"),
     client_secret |-> env_var(e, "SMARTCAR_CLIENT_SECRET"),
     redirect_uri |-> env_var(e, "SMARTCAR_REDIRECT_URI"),
     test_mode |-> test_mode]

\* AuthClient::setup
setup(test_mode, e) == SmartcarCredentialsBuilder_new(test_mode, e)

set_client_id(self, client_id) == [self EXCEPT !.client_id = Some(client_id)]

set_client_secret(self, client_secret) ==
    [self EXCEPT !.client_secret = Some(client_secret)]

set_redirect_uri(self, redirect_uri) ==
    [self EXCEPT !.redirect_uri = Some(redirect_uri)]

\* build with an empty redirect URI where none is held
build_lenient(self) ==
    IF IsNone(self.client_id)
    THEN Panic("'client_id' must either be built or set with env variables")
    ELSE IF IsNone(self.client_secret)
    THEN Panic("'client_secret' must either be built or set with env variables")
    ELSE Ok(AuthClient_new(Unwrap(self.client_id), Unwrap(self.client_secret),
                           IF IsNone(self.redirect_uri) THEN ""
                           ELSE Unwrap(self.redirect_uri), self.test_mode))

\* SmartcarCredentialsBuilder::build: each expect panics on None, in the order
\* of the struct expression's fields
build(self) ==
    IF IsNone(self.client_id)
    THEN Panic("'client_id' must either be built or set with env variables")
    ELSE IF IsNone(self.client_secret)
    THEN Panic("'client_secret' must either be built or set with env variables")
    ELSE IF IsNone(self.redirect_uri)
    THEN Panic("'redirect_uri' must either be built or set with env variables")
    ELSE Ok(AuthClient_new(Unwrap(self.client_id), Unwrap(self.client_secret),
                           Unwrap(self.redirect_uri), self.test_mode))

\* AuthClient::from_env of the credentials builder's module
builder_from_env(test_mode, e) == build(SmartcarCredentialsBuilder_new(test_mode, e))

\* AuthClient::from_env
from_env(test_mode, e) ==
    IF IsNone(env_var(e, "SMARTCAR_CLIENT_ID"))
    THEN Panic("SMARTCAR_CLIENT_ID environment variable not set")
    ELSE IF IsNone(env_var(e, "SMARTCAR_CLIENT_SECRET"))
    THEN Panic("SMARTCAR_CLIENT_SECRET envionment variable not set")
    ELSE IF IsNone(env_var(e, "SMARTCAR_REDIRECT_URI"))
    THEN Panic("SMARTCAR_REDIRECT_URI envionment variable not set")
    ELSE Ok(AuthClient_new(Unwrap(env_var(e, "SMARTCAR_CLIENT_ID")),
                           Unwrap(env_var(e, "SMARTCAR_CLIENT_SECRET")),
                           Unwrap(env_var(e, "SMARTCAR_REDIRECT_URI")), test_mode))

\* an environment with every credential and every host of its own
FullEnv ==
    [NoEnv EXCEPT !["SMARTCAR_API_ORIGIN"] = Some("http://127.0.0.1:9000"),
                  !["SMARTCAR_AUTH_ORIGIN"] = Some("http://127.0.0.1:9000/token"),
                  !["SMARTCAR_CONNECT_URL"] = Some("http://127.0.0.1:9000/connect"),
                  !["SMARTCAR_CLIENT_ID"] = Some("env-id"),
                  !["SMARTCAR_CLIENT_SECRET"] = Some("env-secret"),
                  !["SMARTCAR_REDIRECT_URI"] = Some("env.example/cb")]

\* the environments of the construction model
LifeEnvs == {NoEnv, SandboxEnv, FullEnv}

\* the credentials handed to the builder's setters (those of the test
\* auth_client_creation_with_builder) and the value the test assigns
LifeClientId == "test-client-id"

LifeClientSecret == "test-client-secret"

LifeRedirectUri == "redirect-uri.com"

AssignedClientId == "aweifjaweijf"

\* nothing set explicitly on the builder
NoneExplicit == [client_id |-> None, client_secret |-> None, redirect_uri |-> None]

\* the calls made on the handles once they exist
LifeCalls ==
    {[op |-> "exchange_code", code |-> "code-1"],
     [op |-> "method", method |-> "odometer"]}

InitLife ==
    /\ ctor = "with_all_permissions"
    /\ added = <<>>
    /\ scope = with_all_permissions
    /\ env \in LifeEnvs
    /\ client = NoClient
    /\ options = AuthUrlOptionsBuilder_new
    /\ ret = NoCall
    /\ SendUnused
    /\ LifeUnused

\* AuthClient::setup(test_mode): `explicit` and `read` are ghosts, what the
\* setters were given and the environment the builder read
Setup(test_mode) ==
    /\ builder = NoBuilder
    /\ client = NoClient
    /\ pc = "idle"
    /\ builder' = [op |-> "setup", b |-> setup(test_mode, env),
                   explicit |-> NoneExplicit, read |-> env]
    /\ UNCHANGED <<scopeVars, authVars, sendVars, ret, built, tasks>>

SetClientId(v) ==
    /\ builder # NoBuilder
    /\ builder' = [builder EXCEPT !.b = set_client_id(@, v),
                                  !.explicit.client_id = Some(v)]
    /\ UNCHANGED <<scopeVars, authVars, sendVars, ret, built, tasks>>

SetClientSecret(v) ==
    /\ builder # NoBuilder
    /\ builder' = [builder EXCEPT !.b = set_client_secret(@, v),
                                  !.explicit.client_secret = Some(v)]
    /\ UNCHANGED <<scopeVars, authVars, sendVars, ret, built, tasks>>

SetRedirectUri(v) ==
    /\ builder # NoBuilder
    /\ builder' = [builder EXCEPT !.b = set_redirect_uri(@, v),
                                  !.explicit.redirect_uri = Some(v)]
    /\ UNCHANGED <<scopeVars, authVars, sendVars, ret, built, tasks>>

\* a constructor has returned `result` or panicked with it: a client exists
\* only when it returned one
Constructed_client(how, explicit, read, result) ==
    /\ ret' = result
    /\ client' = IF result.ok THEN result.value ELSE NoClient
    /\ built' = [op |-> "build", how |-> how, explicit |-> explicit,
                 read |-> read, env |-> env, venv |-> None, result |-> result]
    /\ builder' = NoBuilder
    /\ UNCHANGED <<scopeVars, env, options, vehicle, pc, call, wire, reply,
                   sendRet, tasks>>

\* SmartcarCredentialsBuilder::build
Build ==
    /\ builder # NoBuilder
    /\ Constructed_client("builder", builder.explicit, builder.read,
                          build(builder.b))

\* AuthClient::from_env(test_mode), of either module
FromEnv(test_mode) ==
    /\ builder = NoBuilder
    /\ client = NoClient
    /\ pc = "idle"
    /\ \E how \in {"from_env", "builder_from_env"} :
          Constructed_client(how, NoneExplicit, env,
              IF how = "from_env" THEN from_env(test_mode, env)
              ELSE builder_from_env(test_mode, env))

\* Vehicle::new, with the access token the program holds
NewVehicle ==
    /\ client # NoClient
    /\ vehicle = NoVehicle
    /\ pc = "idle"
    /\ vehicle' = Vehicle_new("veh-1", "access-tok-1")
    /\ built' = [built EXCEPT !.venv = Some(env)]
    /\ UNCHANGED <<scopeVars, authVars, pc, call, wire, reply, sendRet, ret,
                   builder, tasks>>

\* the program, or its operator, changes the process environment:
\* std::env::set_var and remove_var
SetEnv(e) ==
    /\ e # env
    /\ env' = e
    /\ UNCHANGED <<scopeVars, client, options, sendVars, ret, lifeVars>>

\* auth_client.client_id = String::from(v): the fields of AuthClient are pub
AssignClientId(v) ==
    /\ client # NoClient
    /\ client.client_id # v
    /\ client' = [client EXCEPT !.client_id = v]
    /\ UNCHANGED <<scopeVars, env, options, sendVars, ret, lifeVars>>

\* a call on a handle that exists
LifeCall(c) ==
    /\ IF c.op = "method" THEN vehicle # NoVehicle ELSE client # NoClient
    /\ Call(c)

LifeGetAuthUrl ==
    /\ client # NoClient
    /\ pc = "idle"
    /\ GetAuthUrl(None, <<>>)

NextLife ==
    \/ \E t \in BOOLEAN : Setup(t)
    \/ SetClientId(LifeClientId)
    \/ SetClientSecret(LifeClientSecret)
    \/ SetRedirectUri(LifeRedirectUri)
    \/ Build
    \/ \E t \in BOOLEAN : FromEnv(t)
    \/ NewVehicle
    \/ \E e \in LifeEnvs : SetEnv(e)
    \/ AssignClientId(AssignedClientId)
    \/ \E c \in LifeCalls : LifeCall(c)
    \/ LifeGetAuthUrl
    \/ Deliver(Failure)
    \/ Returned

SpecLife == InitLife /\ [][NextLife]_vars

(***************************************************************************)
(* Calls running side by side on the same handles                          *)
(***************************************************************************)
\* how many calls run side by side
MaxTasks == 2

\* a task that runs no call
IdleTask ==
    [pc |-> "idle", call |-> NoCall, wire |-> <<>>, reply |-> NoReply, ret |-> NoCall]

\* the calls of the tasks: on the AuthClient, and on the Vehicle a read and
\* the two commands
TaskCalls ==
    {[op |-> "exchange_code", code |-> "code-1"],
     [op |-> "exchange_refresh_token", refresh_token |-> "refresh-1"]}
    \cup {[op |-> "method", method |-> m] : m \in {"odometer", "lock", "unlock"}}

\* what the transport gives a task back
TaskOutcomes(ty) ==
    {Failure}
    \cup { [kind |-> "response", status |-> 200, headers |-> [n \in {} |-> OpaqueHeader], body |-> b] :
            b \in IF IsSome(ty) THEN {Sample(TStruct(Unwrap(ty)))} ELSE {NotJson} }

\* the requests the other tasks have on the wire
InFlight(t) ==
    {tasks[u].wire[1] : u \in {u \in DOMAIN tasks \ {t} : tasks[u].pc = "awaiting"}}

\* TaskBegin with one request builder shared by the calls: a call begun while
\* another's request is on the wire sends that request's headers
TaskBegin_shared(c, inflight) ==
    IF Begin(c).do = "send" /\ inflight # {}
    THEN [Begin(c) EXCEPT !.request.headers = (CHOOSE r \in inflight : TRUE).headers]
    ELSE Begin(c)

\* what a call does up to its first await while the requests of `inflight`
\* are on the wire: SmartcarRequestBuilder::new makes a reqwest::Client and a
\* request of the call's own, and the call takes &self
TaskBegin(c, inflight) == Begin(c)

\* the task after its call began with `step`
TaskStarted(c, step) ==
    IF step.do = "return"
    THEN [pc |-> "done", call |-> c, wire |-> <<>>, reply |-> NoReply,
          ret |-> step.result]
    ELSE IF BuilderError(step.request)
    THEN [pc |-> "done", call |-> c, wire |-> send(step.request, NoReply).wire,
          reply |-> NoReply,
          ret |-> after_send(step.ty, send(step.request, NoReply).result)]
    ELSE [pc |-> "awaiting", call |-> c, wire |-> <<step.request>>,
          reply |-> NoReply, ret |-> NoCall]

\* the task after the transport gave `outcome` back for its request
TaskDelivered(task, ty, outcome) ==
    [task EXCEPT !.pc = "done",
                 !.reply = outcome,
                 !.wire = send(task.wire[1], outcome).wire,
                 !.ret = after_send(ty, send(task.wire[1], outcome).result)]

InitTasks ==
    /\ ctor = "with_all_permissions"
    /\ added = <<>>
    /\ scope = with_all_permissions
    /\ env \in {NoEnv, SandboxEnv}
    /\ client \in SendClients
    /\ options = AuthUrlOptionsBuilder_new
    /\ ret = NoCall
    /\ vehicle = Vehicle_new("veh-1", "access-tok-1")
    /\ pc = "idle"
    /\ call = NoCall
    /\ wire = <<>>
    /\ reply = NoReply
    /\ sendRet = NoCall
    /\ builder = NoBuilder
    /\ built = [op |-> "handles", client |-> client, vehicle |-> vehicle]
    /\ tasks = [t \in 1..MaxTasks |-> IdleTask]

TaskCall(t, c) ==
    /\ tasks[t].pc = "idle"
    /\ tasks' = [tasks EXCEPT ![t] = TaskStarted(c, TaskBegin(c, InFlight(t)))]
    /\ UNCHANGED <<scopeVars, authVars, sendVars, ret, builder, built>>

TaskDeliver(t, outcome) ==
    /\ tasks[t].pc = "awaiting"
    /\ tasks' = [tasks EXCEPT
                    ![t] = TaskDelivered(@, Begin(tasks[t].call).ty, outcome)]
    /\ UNCHANGED <<scopeVars, authVars, sendVars, ret, builder, built>>

\* the caller has taken what the task's call returned
TaskReturned(t) ==
    /\ tasks[t].pc = "done"
    /\ tasks' = [tasks EXCEPT ![t] = IdleTask]
    /\ UNCHANGED <<scopeVars, authVars, sendVars, ret, builder, built>>

NextTasks ==
    \/ \E t \in DOMAIN tasks, c \in TaskCalls : TaskCall(t, c)
    \/ \E t \in DOMAIN tasks :
          /\ tasks[t].pc = "awaiting"
          /\ \E outcome \in TaskOutcomes(Begin(tasks[t].call).ty) :
                TaskDeliver(t, outcome)
    \/ \E t \in DOMAIN tasks : TaskReturned(t)

SpecTasks == InitTasks /\ [][NextTasks]_vars

(***************************************************************************)
(* Reading a URL back: its query parameters                                *)
(***************************************************************************)
\* the text after the first "?" of a URL
QueryOf(url) ==
    LET marks == {i \in 1..Len(url) : Char(url, i) = "?"}
    IN IF marks = {} THEN "" ELSE SubSeq(url, Min(marks) + 1, Len(url))

\* a piece name=value of a query as <<name, value>>, split at its first "="
NameValue(piece) ==
    LET eqs == {i \in 1..Len(piece) : Char(piece, i) = "="}
    IN IF eqs = {} THEN <<piece, "">>
       ELSE <<SubSeq(piece, 1, Min(eqs) - 1), SubSeq(piece, Min(eqs) + 1, Len(piece))>>

\* the query parameters of a URL, in order
Params(url) ==
    LET pieces == Split(QueryOf(url), "&")
    IN [i \in 1..Len(pieces) |-> NameValue(pieces[i])]

ParamNames(url) == {Params(url)[i][1] : i \in 1..Len(Params(url))}

\* the values of the parameters called `name`, in order
ValuesOf(url, name) ==
    LET hits == SelectSeq(Params(url), LAMBDA nv : nv[1] = name)
    IN [i \in 1..Len(hits) |-> hits[i][2]]

(***************************************************************************)
(* Claims about the authorization URL, checked under SpecAuth              *)
(***************************************************************************)
\* the options get_auth_url was given ask for a forced prompt
Forced ==
    /\ IsSome(ret.options)
    /\ Unwrap(ret.options).force_prompt = Some(TRUE)

\* C1: the URL get_auth_url returns has exactly one approval_prompt query
\* parameter, with the value force when set_force_prompt(true) was called on
\* the options and auto otherwise.
C1_ExactlyOneApprovalPrompt ==
    ret.op = "get_auth_url" =>
        LET vals == ValuesOf(ret.url, "approval_prompt")
        IN /\ Len(vals) = 1
           /\ vals[1] = IF Forced THEN "force" ELSE "auto"

\* the caller's values that end up in the URL, each with the parameter it fills
CallerValues ==
    { <<"state", "state">>, <<"make_bypass", "make">>,
      <<"single_select_by_vin", "single_select_vin">>, <<"flags", "flag">>,
      <<"client_id", "client_id">>, <<"client_secret", "client_secret">>,
      <<"redirect_uri", "redirect_uri">> }

\* the URL of the latest get_auth_url call had the caller's value `field`
\* been a plain word
UrlWithPlain(field) ==
    LET plainOpts ==
            IF IsNone(ret.options) \/ field \notin DOMAIN Unwrap(ret.options)
                \/ IsNone(Unwrap(ret.options)[field])
            THEN ret.options
            ELSE Some([Unwrap(ret.options) EXCEPT
                        ![field] = IF field = "flags"
                                   THEN Some([k \in {"k"} |-> "v"])
                                   ELSE Some("x")])
        plainOrder == IF field = "flags" /\ IsSome(ret.options)
                         /\ IsSome(Unwrap(ret.options).flags)
                      THEN <<"k">> ELSE ret.order
        plainClient == IF field \in DOMAIN client
                       THEN [client EXCEPT ![field] = "x"] ELSE client
    IN get_auth_url(plainClient, scope, plainOpts, plainOrder, env)

\* C2: the URL is fully query-encoded: whatever characters a caller's value
\* (state, make, single-select VIN, flags, client id, client secret, redirect
\* URI) holds, the URL has the parameter names, and every other parameter the
\* values, that it has when that value is a plain word.
C2_ValuesCannotAlterOtherParameters ==
    ret.op = "get_auth_url" =>
        \A fv \in CallerValues :
            LET plain == UrlWithPlain(fv[1])
            IN /\ ParamNames(ret.url) = ParamNames(plain)
               /\ \A n \in ParamNames(plain) \ {fv[2]} :
                    ValuesOf(ret.url, n) = ValuesOf(plain, n)

(***************************************************************************)
(* Claims about the webhook helpers, checked under SpecWebhook             *)
(***************************************************************************)
\* C3: hash_challenge(secret, challenge) is the lowercase hexadecimal text of
\* the HMAC-SHA256 whose key is the secret and whose message is the
\* challenge: the two never change places.
C3_KeyedBySecret ==
    ret.op = "hash_challenge" =>
        /\ ret.result.ok
        /\ ret.result.value =
              hex_encode(HmacSha256(as_bytes(ret.amt), as_bytes(ret.challenge)))

\* C4: verify_payload(secret, signature, body) is true exactly when the
\* signature is hash_challenge(secret, body): the hash a call returned
\* verifies against the inputs of that call, and no longer does with any one
\* of its characters changed.
C4_VerifyIffSignatureIsHash ==
    /\ ret.op = "verify_payload" =>
          /\ ret.result.ok
          /\ ret.result.value
                <=> (ret.signature = hash_challenge(ret.amt, ret.body).value)
    /\ ret.op = "hash_challenge" =>
          /\ verify_payload(ret.amt, ret.result.value, ret.challenge) = Ok(TRUE)
          /\ \A i \in 1..Len(ret.result.value) :
                verify_payload(ret.amt, FlipChar(ret.result.value, i), ret.challenge)
                    = Ok(FALSE)

\* C4's case: a hash of a secret and a different body was verified and accepted
C4_Witness ==
    /\ ret.op = "verify_payload"
    /\ ret.amt # ret.body
    /\ ret.signature = hash_challenge(ret.amt, ret.body).value
    /\ ret.result = Ok(TRUE)

(***************************************************************************)
(* Claims about the scope builder, checked under SpecScope                 *)
(***************************************************************************)
\* every permission the builder was given, the constructor's included
Given == CtorVec(ctor) \o added

\* the slice the current step hands to the builder
Handed == SubSeq(added', Len(added) + 1, Len(added'))

\* C8: adding a permission that is already in the builder, through
\* add_permission or anywhere in a slice of add_permissions, changes neither
\* the permission set nor the rendered string: a step whose permissions are
\* all present leaves the builder as it was, and any step has the effect of
\* the same step with the repeated permissions left out.
C8_SecondAddIsNoOp ==
    [][ /\ (\A i \in 1..Len(Handed) : Handed[i] \in scope.permissions)
            => scope' = scope
        /\ scope' = add_permissions(scope, Fresh(Handed, scope.permissions))
      ]_vars

\* C8's case: a permission was added a second time to a builder holding
\* another permission as well
C8_Witness ==
    /\ \E i, j \in 1..Len(added) : i < j /\ added[i] = added[j]
    /\ Cardinality(scope.permissions) >= 2

\* C9: the rendered string is the canonical tokens of the added permissions
\* with exactly one space between neighbours: split at spaces it has no empty
\* piece (so no leading, trailing or doubled space), its pieces are the tokens
\* of the permissions added, and it is empty exactly when nothing was added.
C9_SpaceJoinedTokens ==
    LET qv == scope.query_value
        toks == Split(qv, " ")
    IN /\ (Len(Given) = 0) <=> (qv = "")
       /\ qv # "" =>
            /\ \A i \in 1..Len(toks) : toks[i] # ""
            /\ Char(qv, 1) # " " /\ Char(qv, Len(qv)) # " "
            /\ Range(toks) = {as_str(p) : p \in Range(Given)}

\* C9's case: a new builder was given several different permissions
C9_Witness ==
    /\ ctor = "new"
    /\ Cardinality(Range(added)) >= 3
    /\ Contains(scope.query_value, " ")

\* C10: token i of the rendered string is the canonical token of the i-th
\* distinct permission added, and ReadEngineOil, ReadFuel, ReadVin added in
\* that order render "read_engine_oil read_fuel read_vin".
C10_FirstInsertionOrder ==
    LET order == Fresh(Given, {})
        toks == Split(scope.query_value, " ")
    IN /\ IF Len(order) = 0 THEN scope.query_value = ""
          ELSE /\ Len(toks) = Len(order)
               /\ \A i \in 1..Len(order) : toks[i] = as_str(order[i])
       /\ (ctor = "new" /\ added = <<"ReadEngineOil", "ReadFuel", "ReadVin">>)
            => scope.query_value = "read_engine_oil read_fuel read_vin"

\* C10's case: the three permissions of the test were added in its order
C10_Witness ==
    /\ ctor = "new"
    /\ added = <<"ReadEngineOil", "ReadFuel", "ReadVin">>
    /\ scope.query_value = "read_engine_oil read_fuel read_vin"

(***************************************************************************)
(* Claims about the request sender, checked under SpecSend                 *)
(***************************************************************************)
\* a body that is a well-formed provider error: an object whose type,
\* description, docURL and requestId are strings, whose statusCode is an
\* integer, whose resolution is an object of strings and nulls, and whose code,
\* when present, is a string or null
IsProviderError(body) ==
    /\ body.t = "object"
    /\ {"type", "description", "docURL", "statusCode", "resolution", "requestId"}
            \subseteq DOMAIN body.v
    /\ \A n \in {"type", "description", "docURL", "requestId"} :
            body.v[n].t = "string"
    /\ body.v["statusCode"].t = "number"
    /\ body.v["statusCode"].int
    /\ body.v["resolution"].t = "object"
    /\ \A n \in DOMAIN body.v["resolution"].v :
            body.v["resolution"].v[n].t \in {"string", "null"}
    /\ "code" \in DOMAIN body.v => body.v["code"].t \in {"string", "null"}

\* a JSON string as Some(text), null or nothing as None
TextOrNone(members, n) ==
    IF n \in DOMAIN members /\ members[n].t = "string" THEN Some(members[n].v)
    ELSE None

\* the fields of a well-formed provider error body
ProviderErrorOf(body) ==
    [error_type |-> body.v["type"].v,
     code |-> TextOrNone(body.v, "code"),
     description |-> body.v["description"].v,
     doc_url |-> body.v["docURL"].v,
     status_code |-> body.v["statusCode"].v,
     resolution |-> [n \in DOMAIN body.v["resolution"].v |->
                        TextOrNone(body.v["resolution"].v, n)],
     request_id |-> body.v["requestId"].v]

\* C5: when the transport delivered a response, send returns success if and
\* only if the status is exactly 200; when the status is not 200 and the body
\* is a well-formed provider error, send returns Error::SmartcarError carrying
\* type, code, description, docURL, statusCode, resolution and requestId
\* exactly as in the body.
C5_SuccessIffStatus200 ==
    (pc = "done" /\ reply.kind = "response") =>
        /\ sendRet.ok <=> reply.status = 200
        /\ (reply.status # 200 /\ IsProviderError(reply.body)) =>
                sendRet = Err([kind |-> "SmartcarError",
                               error |-> ProviderErrorOf(reply.body)])

\* C6: when the response has a non-200 status and its body does not
\* deserialize as a provider error, send returns Error::SdkSerdeFailure, a kind
\* other than SdkReqwestFailure and SmartcarError; the call returns the same
\* kind when a 200 body does not deserialize into the call's typed payload.
C6_DeserializationFailureKind ==
    (pc = "done" /\ reply.kind = "response") =>
        /\ (/\ reply.status # 200
            /\ ~from_slice(TStruct("SmartcarError"), reply.body).ok)
                => (/\ ~sendRet.ok
                    /\ ~IsPanic(sendRet)
                    /\ sendRet.error.kind = "SdkSerdeFailure")
        /\ (/\ reply.status = 200
            /\ sendRet.ok
            /\ IsSome(Begin(call).ty)
            /\ ~from_slice(TStruct(Unwrap(Begin(call).ty)), reply.body).ok)
                => (/\ ~ret.ok
                    /\ ret.error.kind = "SdkSerdeFailure")

\* C7: every call dispatches at most one HTTP request; after a transport
\* failure or a non-200 response the call has ended with an error and has
\* sent its one request only.
C7_AtMostOneRequest ==
    /\ Len(wire) <= 1
    /\ pc = "awaiting" => Len(wire) = 1
    /\ (\/ reply.kind = "failure"
        \/ (reply.kind = "response" /\ reply.status # 200))
            => (/\ pc = "done"
                /\ ~ret.ok
                /\ ~IsPanic(ret)
                /\ Len(wire) = 1)

\* C7's case: the transport failed, the call returned the error and its one
\* request is all that was sent
C7_Witness ==
    /\ pc = "done"
    /\ reply.kind = "failure"
    /\ Len(wire) = 1
    /\ ret = Err(Error_from_reqwest([reqwest |-> "request"]))

(***************************************************************************)
(* Claims about with_all_permissions, checked under SpecScope              *)
(***************************************************************************)
\* C11: the builder of with_all_permissions() is maximal: its permission set
\* holds every value of the Permission enum, so whatever permissions are added
\* to it afterwards, its set and its rendered string stay as constructed.
C11_AllPermissionsIsMaximal ==
    ctor = "with_all_permissions" =>
        /\ Permission \subseteq scope.permissions
        /\ scope = with_all_permissions

(***************************************************************************)
(* Claims about batch responses, checked under SpecSend                    *)
(***************************************************************************)
\* a well-formed payload of the shape n: an object of members of that shape
\* only, which reads as the shape
IsPayloadOf(n, body) ==
    /\ body.t = "object"
    /\ DOMAIN body.v \subseteq Range(WireNames(StructDef(n)))
    /\ Deserialize(TStruct(n), body).ok

\* the entries of the batch response the transport delivered
EntriesOf(r) == r.body.v["responses"].v

\* Vehicle::batch returned the entries of a delivered batch response
BatchReturned ==
    /\ pc = "done"
    /\ call.op = "batch"
    /\ reply.kind = "response"
    /\ ret.ok

\* C12: every entry of a batch response whose body is a well-formed payload
\* of a known shape (the provider error's included) is tagged with the
\* variant of that shape and of no other.
C12_EntryTaggedWithOwnShape ==
    BatchReturned =>
        \A i \in 1..Len(EntriesOf(reply)) :
            \A n \in Range(SmartcarResponseBody) :
                IsPayloadOf(n, EntriesOf(reply)[i].v["body"])
                    => ret.value.data.responses[i].body.variant = n

\* a batch response body: an object whose responses are entries, each with a
\* path, a code and a body that is some JSON object
IsBatchBody(body) ==
    /\ body.t = "object"
    /\ "responses" \in DOMAIN body.v
    /\ body.v["responses"].t = "array"
    /\ \A i \in 1..Len(body.v["responses"].v) :
        /\ body.v["responses"].v[i].t = "object"
        /\ {"path", "code", "body"} \subseteq DOMAIN body.v["responses"].v[i].v
        /\ body.v["responses"].v[i].v["path"].t = "string"
        /\ body.v["responses"].v[i].v["code"].t = "number"
        /\ body.v["responses"].v[i].v["body"].t = "object"

\* C13: the entries of a batch response succeed or fail one by one: when send
\* handed over a 200 batch response, Vehicle::batch returns one entry per
\* entry received, and every entry whose body matches a known shape (the
\* provider error's included) is returned as it reads on its own, whatever
\* its siblings hold, a body of no known shape among them.
C13_EntriesIndependent ==
    (/\ pc = "done"
     /\ call.op = "batch"
     /\ reply.kind = "response"
     /\ sendRet.ok
     /\ IsBatchBody(reply.body))
        => /\ ret.ok
           /\ Len(ret.value.data.responses) = Len(EntriesOf(reply))
           /\ \A i \in 1..Len(EntriesOf(reply)) :
                Deserialize(TStruct("BatchResponse"), EntriesOf(reply)[i]).ok
                    => ret.value.data.responses[i]
                        = Deserialize(TStruct("BatchResponse"),
                                      EntriesOf(reply)[i]).value

\* the paths of the entries of a batch request body
PathsOf(body) ==
    [i \in 1..Len(body.v["requests"].v) |-> body.v["requests"].v[i].v["path"].v]

\* C14: the body build_batch_request_body makes of a list of paths is an
\* object of the one member requests, an array of objects of the one member
\* path, whose paths are the input's, one per input path, in the input's
\* order, duplicates kept; Vehicle::batch puts exactly one request on the
\* wire, a POST to the vehicle's /batch with that body.
C14_OneEntryPerPathInOrder ==
    (call.op = "batch" /\ pc \in {"awaiting", "done"}) =>
        /\ Len(wire) = 1
        /\ wire[1].verb = "POST"
        /\ wire[1].url
            = get_api_url(env) \o "/v2.0/vehicles/" \o vehicle.id \o "/batch"
        /\ IsSome(wire[1].body)
        /\ Unwrap(wire[1].body).t = "object"
        /\ DOMAIN Unwrap(wire[1].body).v = {"requests"}
        /\ Unwrap(wire[1].body).v["requests"].t = "array"
        /\ \A i \in 1..Len(Unwrap(wire[1].body).v["requests"].v) :
            /\ Unwrap(wire[1].body).v["requests"].v[i].t = "object"
            /\ DOMAIN Unwrap(wire[1].body).v["requests"].v[i].v = {"path"}
            /\ Unwrap(wire[1].body).v["requests"].v[i].v["path"].t = "string"
        /\ PathsOf(Unwrap(wire[1].body)) = call.paths

\* C14's case: a batch of three paths, one of them twice, is on the wire
C14_Witness ==
    /\ call.op = "batch"
    /\ pc = "awaiting"
    /\ Len(call.paths) = 3
    /\ call.paths[1] = call.paths[3]
    /\ PathsOf(Unwrap(wire[1].body)) = call.paths

\* C15: structural matching tries the shapes in one fixed order with the
\* provider error's shape first: the variant of an entry is a function of its
\* body alone, and an entry whose body reads as a provider error is tagged
\* SmartcarError even when it reads as a success shape as well.
C15_ErrorShapeTriedFirst ==
    BatchReturned =>
        \A i \in 1..Len(EntriesOf(reply)) :
            /\ \A j \in 1..Len(EntriesOf(reply)) :
                EntriesOf(reply)[i].v["body"] = EntriesOf(reply)[j].v["body"]
                    => ret.value.data.responses[i].body
                        = ret.value.data.responses[j].body
            /\ Deserialize(TStruct("SmartcarError"), EntriesOf(reply)[i].v["body"]).ok
                    => ret.value.data.responses[i].body.variant = "SmartcarError"

(***************************************************************************)
(* Claims about the token exchanges, checked under SpecSend                *)
(***************************************************************************)
\* the values of the header `name` of a request, in the order they were added
HeaderValues(rb, name) ==
    [i \in 1..Len(Fresh([j \in 1..Len(rb.headers) |->
                            IF rb.headers[j][1] = name THEN j ELSE 0], {0})) |->
        rb.headers[Fresh([j \in 1..Len(rb.headers) |->
                            IF rb.headers[j][1] = name THEN j ELSE 0], {0})[i]][2]]

\* base64 of "client_id:client_secret" for the two clients of the model, as
\* RFC 4648 gives it
KnownBasic(self) ==
    IF self.client_id = "test-client-id"
    THEN "Basic dGVzdC1jbGllbnQtaWQ6dGVzdC1jbGllbnQtc2VjcmV0"
    ELSE "Basic aWQtMjpzZWNyZXQtMg=="

\* the form each exchange submits
ExchangeForm(c, self) ==
    IF c.op = "exchange_code"
    THEN [grant_type |-> "authorization_code", code |-> c.code,
          redirect_uri |-> self.redirect_uri]
    ELSE [grant_type |-> "refresh_token", refresh_token |-> c.refresh_token]

\* C16: exchange_code and exchange_refresh_token each put exactly one request
\* on the wire, a POST of a form to the token endpoint (the same for both),
\* with the one Authorization header Basic base64(client_id:client_secret) of
\* the AuthClient; the code exchange submits grant_type=authorization_code,
\* the code and the client's redirect_uri, the refresh exchange
\* grant_type=refresh_token and the refresh token.
C16_ExchangesPostBasicAuthForm ==
    (call.op \in {"exchange_code", "exchange_refresh_token"}
     /\ pc \in {"awaiting", "done"}) =>
        /\ Len(wire) = 1
        /\ wire[1].verb = "POST"
        /\ wire[1].url = get_oauth_url(env)
        /\ HeaderValues(wire[1], "Authorization") = <<KnownBasic(client)>>
        /\ wire[1].form = Some(ExchangeForm(call, client))
        /\ wire[1].body = None
        /\ wire[1].query = <<>>

\* C16's case: a refresh exchange of the second client is on the wire
C16_Witness ==
    /\ call.op = "exchange_refresh_token"
    /\ pc = "awaiting"
    /\ client.client_id = "id-2"
    /\ wire[1].form
        = Some([grant_type |-> "refresh_token", refresh_token |-> "refresh-1"])

\* a valid Access body: an object with the four members, each of its type
IsAccessBody(body) ==
    /\ body.t = "object"
    /\ {"access_token", "refresh_token", "expires_in", "token_type"}
            \subseteq DOMAIN body.v
    /\ \A n \in {"access_token", "refresh_token", "token_type"} :
            body.v[n].t = "string"
    /\ body.v["expires_in"].t = "number"
    /\ body.v["expires_in"].int
    /\ IsI32(body.v["expires_in"].v)

\* the Access a valid body holds
AccessOf(body) ==
    [access_token |-> body.v["access_token"].v,
     refresh_token |-> body.v["refresh_token"].v,
     expires_in |-> body.v["expires_in"].v,
     token_type |-> body.v["token_type"].v]

\* C17: when the token endpoint answers an exchange with status 200 and a
\* valid Access body, the exchange returns an Access of the four values of the
\* body, and the AuthClient is left as it was, so that no later exchange
\* depends on this one.
C17_ExchangeReturnsAccessOfBody ==
    [][ (/\ pc = "awaiting"
         /\ pc' = "done"
         /\ call.op \in {"exchange_code", "exchange_refresh_token"}
         /\ reply'.kind = "response"
         /\ reply'.status = 200
         /\ IsAccessBody(reply'.body))
            => /\ ret'.ok
               /\ ret'.value.data = AccessOf(reply'.body)
               /\ client' = client
      ]_vars

(***************************************************************************)
(* Claims about response metadata, checked under SpecSend                  *)
(***************************************************************************)
\* the text of the header `name` of a response when it is there and is text
TextOf(headers, name) ==
    IF name \in DOMAIN headers /\ headers[name].visible
    THEN Some(headers[name].text) ELSE None

\* C18: whatever the headers of a 200 response hold, send returns with a
\* Meta: request_id and unit_system are the texts of their headers when
\* these are there, and data_age is absent when SC-Data-Age is absent or does
\* not parse as a timestamp with milliseconds, present when it does.
C18_MetaNeverFailsTheCall ==
    (pc = "done" /\ reply.kind = "response" /\ reply.status = 200) =>
        /\ sendRet.ok
        /\ ("sc-request-id" \notin DOMAIN reply.headers
                \/ IsSome(TextOf(reply.headers, "sc-request-id")))
            => sendRet.value.meta.request_id
                = TextOf(reply.headers, "sc-request-id")
        /\ sendRet.value.meta.unit_system = TextOf(reply.headers, "sc-unit-system")
        /\ TextOf(reply.headers, "sc-data-age") \in {None, Some("yesterday")}
            => sendRet.value.meta.data_age = None
        /\ TextOf(reply.headers, "sc-data-age") = Some("2022-09-05T19:57:31.037Z")
            => IsSome(sendRet.value.meta.data_age)

(***************************************************************************)
(* Claims about parameter errors, checked under SpecSend                   *)
(***************************************************************************)
\* C19: delete_connections called with a filter whose vehicle_id and user_id
\* are both set has returned, once called, the error
\* DeleteConnectionsFilterValidationError as its result, without a panic, and
\* has put no request on the wire.
C19_BothFiltersRejectedUnsent ==
    (/\ call.op = "delete_connections"
     /\ IsSome(call.filter)
     /\ IsSome(Unwrap(call.filter).vehicle_id)
     /\ IsSome(Unwrap(call.filter).user_id))
        => /\ pc = "done"
           /\ ret = Err([kind |-> "DeleteConnectionsFilterValidationError"])
           /\ wire = <<>>
           /\ reply = NoReply

\* C19's case: the call with both filters has returned the error
C19_Witness ==
    /\ call.op = "delete_connections"
    /\ call.filter = Some([vehicle_id |-> Some("veh-1"), user_id |-> Some("user-1")])
    /\ pc = "done"
    /\ ~ret.ok
    /\ wire = <<>>

\* the client id or secret a get_compatibility call is supplied with: the
\* value of its options when there is one, else the environment's
Supplied(c, field, name) ==
    IF IsSome(c.options) /\ IsSome(Unwrap(c.options)[field])
    THEN Unwrap(c.options)[field]
    ELSE env[name]

\* base64 of "id:secret" for the ids and secrets of the model, as RFC 4648
\* gives it
KnownCompatibilityBasic(id, secret) ==
    CASE id = "opt-id" /\ secret = "opt-secret" -> "Basic b3B0LWlkOm9wdC1zZWNyZXQ="
      [] id = "opt-id" /\ secret = "env-secret" -> "Basic b3B0LWlkOmVudi1zZWNyZXQ="
      [] id = "env-id" /\ secret = "env-secret" -> "Basic ZW52LWlkOmVudi1zZWNyZXQ="

\* what C20 says of a call supplied with `id` and `secret`
CompatibilityAsSupplied(id, secret) ==
    IF IsNone(id) \/ IsNone(secret)
    THEN /\ pc = "done"
         /\ ~ret.ok
         /\ ~IsPanic(ret)
         /\ ret.error.kind = "MissingParameters"
         /\ wire = <<>>
         /\ reply = NoReply
    ELSE /\ Len(wire) = 1
         /\ HeaderValues(wire[1], "Authorization")
                = <<KnownCompatibilityBasic(Unwrap(id), Unwrap(secret))>>

\* C20: get_compatibility returns Error::MissingParameters and sends nothing
\* when the client id or the client secret is neither in its options nor in
\* the environment; otherwise it sends its request with the header Basic
\* base64(id:secret), each of the two taken from the options when given there
\* and from the environment when not.
C20_MissingParametersOrBasicAuth ==
    (call.op = "get_compatibility" /\ pc \in {"awaiting", "done"}) =>
        CompatibilityAsSupplied(
            Supplied(call, "client_id", "SMARTCAR_CLIENT_ID"),
            Supplied(call, "client_secret", "SMARTCAR_CLIENT_SECRET"))

\* C20's cases: a call with the id from its options and the secret from the
\* environment is on the wire
C20_Witness ==
    /\ call.op = "get_compatibility"
    /\ pc = "awaiting"
    /\ IsSome(call.options)
    /\ Unwrap(call.options).client_id = Some("opt-id")
    /\ Unwrap(call.options).client_secret = None
    /\ env["SMARTCAR_CLIENT_ID"] = Some("env-id")
    /\ HeaderValues(wire[1], "Authorization") = <<"Basic b3B0LWlkOmVudi1zZWNyZXQ=">>

(***************************************************************************)
(* C21: the hosts and the environment                                      *)
(***************************************************************************)
\* the first Len(p) characters of s are p
StartsWith(s, p) == Len(s) >= Len(p) /\ SubSeq(s, 1, Len(p)) = p

\* C21: the API, auth and connect hosts are those of the environment as it
\* was when the handle was constructed: a token exchange on the wire goes to
\* the auth host of the environment the AuthClient was built in, a vehicle
\* request to the API host of the environment the Vehicle was built in, and
\* the authorization URL starts with the connect host of the environment the
\* AuthClient was built in, whatever the environment has become since.
C21_HostsReadAtConstruction ==
    /\ (pc = "awaiting" /\ call.op = "exchange_code" /\ built # NoBuilder) =>
          wire[1].url = get_oauth_url(built.env)
    /\ (pc = "awaiting" /\ call.op = "method" /\ built # NoBuilder) =>
          wire[1].url = get_api_url(Unwrap(built.venv)) \o "/v2.0/vehicles/"
                            \o vehicle.id \o "/odometer"
    /\ ("url" \in DOMAIN ret /\ built # NoBuilder) =>
          StartsWith(ret.url, get_connect_url(built.env) \o "/oauth/authorize?")

(***************************************************************************)
(* C22, C23: the authorization URL, checked under SpecAuth                 *)
(***************************************************************************)
\* the URL the test get_auth_url asserts
TestAuthUrl ==
    "https://connect.smartcar.com/oauth/authorize?scope=read_engine_oil%20read_battery%20read_charge%20control_charge%20read_thermometer%20read_fuel%20read_location%20control_security%20read_odometer%20read_tires%20read_vehicle_info%20read_vin&response_type=code&client_id=test-client-id&client_secret=test-client-secret&redirect_uri=test.com&mode=test&approval_prompt=auto"

\* the head of the URL as C22 states it: host, path, scope, response type and
\* the client's parameters, with mode=test for a test-mode client only
AuthUrlHead ==
    Replace(get_connect_url(env) \o "/oauth/authorize?scope=" \o scope.query_value
                \o "&response_type=code&client_id=" \o client.client_id
                \o "&client_secret=" \o client.client_secret
                \o "&redirect_uri=" \o client.redirect_uri
                \o (IF client.test_mode THEN "&mode=test" ELSE ""),
            " ", "%20")

\* the call of the test get_auth_url: a test-mode client, every permission,
\* options with nothing set
IsTestCall ==
    /\ ret.op = "get_auth_url"
    /\ client = AuthClient_new("test-client-id", "test-client-secret", "test.com", TRUE)
    /\ ctor = "with_all_permissions"
    /\ ret.options = Some(AuthUrlOptionsBuilder_new)
    /\ env = NoEnv

\* C22: the URL get_auth_url returns is the connect host, /oauth/authorize,
\* the rendered scope, response_type=code, the client's id, secret and
\* redirect URI, then mode=test exactly when the client is in test mode, then
\* the options' parameters, an approval_prompt parameter being present; for
\* the test-mode client of the test with every permission and empty options
\* it is the URL the test asserts.
C22_AuthUrlFormat ==
    ret.op = "get_auth_url" =>
        /\ StartsWith(ret.url, AuthUrlHead)
        /\ Len(ret.url) > Len(AuthUrlHead) => Char(ret.url, Len(AuthUrlHead) + 1) = "&"
        /\ "approval_prompt" \in ParamNames(ret.url)
        /\ IsTestCall => ret.url = TestAuthUrl

\* how many times `pat` occurs in s
Occurrences(s, pat) ==
    Cardinality({i \in 1..(Len(s) - Len(pat) + 1) :
                    SubSeq(s, i, i + Len(pat) - 1) = pat})

\* the spaces of the values of a vector of (name, value) pairs
RECURSIVE SpacesOf(_)
SpacesOf(query_vec) ==
    IF Len(query_vec) = 0 THEN 0
    ELSE Occurrences(Head(query_vec)[2], " ") + SpacesOf(Tail(query_vec))

\* the spaces of what the latest get_auth_url call was given: the scope
\* string, the client's values and the options' values
SpacesGiven ==
    Occurrences(scope.query_value, " ")
    + SpacesOf(AuthClient_vectorize(client))
    + (IF IsSome(ret.options)
       THEN SpacesOf(AuthUrlOptionsBuilder_vectorize(Unwrap(ret.options), ret.order))
       ELSE 0)

\* C23: the URL get_auth_url returns holds no space, and every space of the
\* scope string and of the parameter values (state, make, VIN, flags,
\* credentials) is in it as %20.
C23_SpacesAreEscaped ==
    ret.op = "get_auth_url" =>
        /\ ~Contains(ret.url, " ")
        /\ Occurrences(ret.url, "%20") = SpacesGiven

\* C23's case: a URL of a client whose credentials hold spaces, with a state
\* of two words and two flags
C23_Witness ==
    /\ ret.op = "get_auth_url"
    /\ client.client_id = "my id"
    /\ IsSome(ret.options)
    /\ Unwrap(ret.options).state = Some("two words")
    /\ IsSome(Unwrap(ret.options).flags)
    /\ Cardinality(DOMAIN Unwrap(Unwrap(ret.options).flags)) = 2
    /\ Contains(ret.url, "&client_id=my%20id&client_secret=my%20secret&")
    /\ Contains(ret.url, "&state=two%20words&")

(***************************************************************************)
(* C24, C25: the credentials builder, checked under SpecLife               *)
(***************************************************************************)
\* the latest construction went through the builder with all three
\* credentials set explicitly, and returned a client
BuiltExplicitly ==
    /\ built # NoBuilder
    /\ built.how = "builder"
    /\ \A f \in DOMAIN built.explicit : IsSome(built.explicit[f])
    /\ built.result.ok

\* C24: a client built through the credentials builder with explicit client
\* id, client secret and redirect URI holds those three values, and still
\* holds them whatever the caller has done with the client since (any
\* operation, an assignment to client_id).
C24_CredentialsImmutableOnceBuilt ==
    BuiltExplicitly =>
        /\ built.result.value.client_id = Unwrap(built.explicit.client_id)
        /\ built.result.value.client_secret = Unwrap(built.explicit.client_secret)
        /\ built.result.value.redirect_uri = Unwrap(built.explicit.redirect_uri)
        /\ client.client_id = Unwrap(built.explicit.client_id)
        /\ client.client_secret = Unwrap(built.explicit.client_secret)
        /\ client.redirect_uri = Unwrap(built.explicit.redirect_uri)

\* the value the latest construction had for the credential `f`, whose
\* environment variable is `name`: the one set explicitly on the builder, else
\* the one of the environment the constructor read
Effective(f, name) ==
    IF IsSome(built.explicit[f]) THEN built.explicit[f] ELSE env_var(built.read, name)

\* the three credentials with their environment variables
Credentials ==
    { <<"client_id", "SMARTCAR_CLIENT_ID">>,
      <<"client_secret", "SMARTCAR_CLIENT_SECRET">>,
      <<"redirect_uri", "SMARTCAR_REDIRECT_URI">> }

\* C25: constructing an AuthClient panics and yields no client whenever one
\* of client id, client secret and redirect URI is neither set explicitly on
\* the builder nor in the environment; otherwise the client holds, for each
\* of the three, the value set explicitly when there is one and the
\* environment's value when there is none.
C25_MissingCredentialPanics ==
    built # NoBuilder =>
        IF \E c \in Credentials : IsNone(Effective(c[1], c[2]))
        THEN /\ IsPanic(built.result)
             /\ client = NoClient
        ELSE /\ built.result.ok
             /\ \A c \in Credentials :
                    built.result.value[c[1]] = Unwrap(Effective(c[1], c[2]))

\* C25's case: a build that panicked with the redirect URI alone missing, the
\* client id set explicitly over the one of the environment
C25_Witness ==
    /\ built # NoBuilder
    /\ built.how = "builder"
    /\ IsPanic(built.result)
    /\ ret = built.result
    /\ client = NoClient
    /\ env_var(built.read, "SMARTCAR_CLIENT_ID") = Some("env-id")
    /\ built.explicit.client_id = Some("test-client-id")
    /\ IsSome(Effective("client_secret", "SMARTCAR_CLIENT_SECRET"))
    /\ IsNone(Effective("redirect_uri", "SMARTCAR_REDIRECT_URI"))

(***************************************************************************)
(* C26: concurrent calls, checked under SpecTasks                          *)
(***************************************************************************)
\* the task's request and result are those of its call run alone on the
\* handles, given the same answer of the transport
AsAlone(task) ==
    LET alone == TaskStarted(task.call, Begin(task.call))
    IN IF task.reply = NoReply THEN task = alone
       ELSE task = TaskDelivered(alone, Begin(task.call).ty, task.reply)

QueryNames(rb) == [i \in 1..Len(rb.query) |-> rb.query[i][1]]

\* C27: a delete_connections call, whatever its argument, has either put one
\* DELETE request on the wire whose query holds exactly one of vehicle_id and
\* user_id, or returned DeleteConnectionsFilterValidationError with nothing
\* on the wire.
C27_DeleteCarriesOneFilter ==
    (call.op = "delete_connections" /\ pc \in {"awaiting", "done"}) =>
        \/ /\ Len(wire) = 1
           /\ wire[1].verb = "DELETE"
           /\ QueryNames(wire[1]) \in {<<"vehicle_id">>, <<"user_id">>}
        \/ /\ wire = <<>>
           /\ pc = "done"
           /\ ret = Err([kind |-> "DeleteConnectionsFilterValidationError"])

\* C29: lock, unlock and lock_status send their request to
\* {api}/v2.0/vehicles/{id}/security with the vehicle's access token as Bearer
\* header; lock and unlock are POSTs whose bodies are {"action": "LOCK"} and
\* {"action": "UNLOCK"}, lock_status is a GET with no body.
C29_LockAndUnlockSamePath ==
    (/\ call.op = "method"
     /\ call.method \in {"lock", "unlock", "lock_status"}
     /\ pc = "awaiting") =>
        /\ wire[1].url
            = get_api_url(env) \o "/v2.0/vehicles/" \o vehicle.id \o "/security"
        /\ HeaderValues(wire[1], "Authorization")
            = <<"Bearer " \o vehicle.access_token>>
        /\ wire[1].verb = IF call.method = "lock_status" THEN "GET" ELSE "POST"
        /\ wire[1].body
            = CASE call.method = "lock" -> Some(JObject([action |-> JString("LOCK")]))
                [] call.method = "unlock" -> Some(JObject([action |-> JString("UNLOCK")]))
                [] call.method = "lock_status" -> None

(***************************************************************************)
(* C28: the options builder's query, checked under SpecAuth                *)
(***************************************************************************)
\* the names C28 gives the parameters of the options `o`, in its order
ExpectedNames(o) ==
    (IF o.force_prompt = Some(TRUE) THEN <<"approval_prompt">> ELSE <<>>)
    \o (IF IsSome(o.state) THEN <<"state">> ELSE <<>>)
    \o (IF IsSome(o.make_bypass) THEN <<"make">> ELSE <<>>)
    \o (IF IsSome(o.flags) THEN <<"flag">> ELSE <<>>)
    \o (IF IsSome(o.single_select_by_vin) THEN <<"single_select_vin", "single_select">>
        ELSE IF IsSome(o.single_select) THEN <<"single_select">>
        ELSE <<>>)

\* the (name, value) pairs of a query are those C28 states for the options
\* `o`: the names in order and, with a VIN set, the VIN and single_select=true
AsExpected(pairs, o) ==
    /\ [i \in 1..Len(pairs) |-> pairs[i][1]] = ExpectedNames(o)
    /\ IsSome(o.single_select_by_vin) =>
          /\ pairs[Len(pairs) - 1] = <<"single_select_vin", Unwrap(o.single_select_by_vin)>>
          /\ pairs[Len(pairs)] = <<"single_select", "true">>

\* the pairs of a query string "&name=value&name=value"
PairsOf(query) == IF query = "" THEN <<>> ELSE Params("?" \o Tail(query))

\* no value of the options `o` holds the separator of a query string
NoSeparator(o) ==
    \A f \in {"state", "make_bypass", "single_select_by_vin"} :
        IsSome(o[f]) => ~Contains(Unwrap(o[f]), "&")

\* the values the model hands to the setter of the option f
SetterValues(f) ==
    CASE f \in {"force_prompt", "single_select"} -> BOOLEAN
      [] f = "flags" -> ArgFlags
      [] OTHER -> ArgStrings

\* the builder after the setter of the option f was called with v
AfterSetter(o, f, v) ==
    CASE f = "force_prompt" -> set_force_prompt(o, v)
      [] f = "state" -> set_state(o, v)
      [] f = "make_bypass" -> set_make_bypass(o, v)
      [] f = "single_select" -> set_single_select(o, v)
      [] f = "single_select_by_vin" -> set_single_select_by_vin(o, v)
      [] f = "flags" -> set_flags(o, v)

\* two setters of different options leave the same builder in either order
SettersCommute(o) ==
    \A f \in DOMAIN o : \A g \in DOMAIN o \ {f} :
        \A v \in SetterValues(f) : \A w \in SetterValues(g) :
            AfterSetter(AfterSetter(o, f, v), g, w)
                = AfterSetter(AfterSetter(o, g, w), f, v)

TokensOf(sb) == IF sb.query_value = "" THEN <<>> ELSE Split(sb.query_value, " ")

\* C30: after any adds to a builder made by new() or with_all_permissions(),
\* a permission is in the set exactly when its canonical token is one of the
\* tokens of the rendered string, no token is there twice, and there are as
\* many tokens as permissions in the set.
C30_SetAndStringAgree ==
    /\ \A p \in Permission :
            p \in scope.permissions
                <=> \E i \in 1..Len(TokensOf(scope)) : TokensOf(scope)[i] = as_str(p)
    /\ \A i, j \in 1..Len(TokensOf(scope)) :
            TokensOf(scope)[i] = TokensOf(scope)[j] => i = j
    /\ Len(TokensOf(scope)) = Cardinality(scope.permissions)

\* C30's case: a builder of with_all_permissions was given a permission it
\* held and one it did not hold
C30_Witness ==
    /\ ctor = "with_all_permissions"
    /\ \E i \in 1..Len(added) : added[i] \in Range(AllPermissionsVec)
    /\ \E i \in 1..Len(added) : added[i] \notin Range(AllPermissionsVec)
    /\ Cardinality(scope.permissions) = Len(AllPermissionsVec) + 1
    /\ Len(TokensOf(scope)) = Len(AllPermissionsVec) + 1

====
